---- MODULE Spec2Model ----
\* A model of the SOCKS5 server of osf4/socks5 (server sessions, the framed
\* connection, the TCP relay and the UDP association), as a state machine.
\* One server, a bounded number of concurrently served client connections.
EXTENDS Integers, Sequences, FiniteSets, TLC

\* ---------------------------------------------------------------- bounds
\* Number of client connections the model serves at the same time.
MaxSessions == 1

Sessions == 1..MaxSessions

\* ------------------------------------------------------ program constants
Version == 5
subnegotiationVersion == 1

MethodNotRequired == 0
MethodPassword == 2
MethodNoAcceptable == 255

statusOK == 0
statusFailure == 1

CmdConnect == 1
CmdBind == 2
CmdUDP == 3

AddrIPV4 == 1
AddrDomain == 3
AddrIPv6 == 4

RepSucceeded == 0
RepServerFailure == 1
RepHostUnreachable == 4
RepCmdNotSupported == 7
RepAddrNotSupported == 8

\* ------------------------------------------------------------- the inputs
\* Server configurations (Server.Auth, Server.Timeout).
Auths == {[method |-> MethodNotRequired, user |-> "", pass |-> ""],
          [method |-> MethodPassword, user |-> "u", pass |-> "p"]}
Timeouts == {0, 50}

\* What a client may put on the control socket, by the message the server
\* parses it as.  eof marks a stream that ends inside the message: after
\* the fixed first bytes when ver is set, before any byte in NegEOF,
\* PassEOF and ReqEOF, where the codec sees the zero bytes of its buffer.
Methods == {<<>>, <<MethodNotRequired>>, <<MethodPassword>>,
            <<MethodNotRequired, MethodPassword>>}
NegInputs == {[ver |-> Version, methods |-> m, eof |-> FALSE] : m \in Methods}
             \cup {[ver |-> 4, methods |-> <<MethodNotRequired>>, eof |-> FALSE],
                   [ver |-> Version, methods |-> <<>>, eof |-> TRUE]}
NegEOF == [ver |-> 0, methods |-> <<>>, eof |-> TRUE]

PassInputs == {[ver |-> subnegotiationVersion, uname |-> u, passwd |-> p, eof |-> FALSE] :
                  u \in {"u", "x"}, p \in {"p", "x"}}
              \cup {[ver |-> 0, uname |-> "u", passwd |-> "p", eof |-> FALSE],
                    [ver |-> subnegotiationVersion, uname |-> "u", passwd |-> "", eof |-> TRUE]}
PassEOF == [ver |-> 0, uname |-> "", passwd |-> "", eof |-> TRUE]

ReqInputs == {[ver |-> Version, cmd |-> c, atyp |-> a, eof |-> FALSE] :
                  c \in {0, CmdConnect, CmdBind, CmdUDP, 4},
                  a \in {AddrIPV4, AddrDomain, AddrIPv6, 5}}
             \cup {[ver |-> 4, cmd |-> CmdConnect, atyp |-> AddrIPV4, eof |-> FALSE],
                   [ver |-> Version, cmd |-> CmdConnect, atyp |-> 0, eof |-> TRUE]}
ReqEOF == [ver |-> 0, cmd |-> 0, atyp |-> 0, eof |-> TRUE]

\* ----------------------------------------------------------------- errors
Err(k, c) == [kind |-> k, code |-> c]
NilErr == Err("nil", 0)
ProtoErr == Err("proto", 0)    \* an errorx error of type ErrProtocol
IoErr == Err("io", 0)          \* the raw error of the reader
CtxErr == Err("ctx", 0)        \* ctx.Err()

SOCKSError(code, cause) == IF code = RepSucceeded THEN NilErr ELSE Err("socks", code)

IsSOCKSError(err) == err.kind = "socks"

\* ------------------------------------------------------------------ state
VARIABLES
    Auth,       \* Server.Auth
    Timeout,    \* Server.Timeout
    srvCtx,     \* Server.ctx: "live" or "cancelled"
    listener,   \* Server.listener: "open" or "closed"
    servePc,    \* the accept loop of Server.Serve: "accepting" or "returned"
    panicked,   \* a goroutine panicked: the process is gone
    pc,         \* where Server.serve of each session is
    client,     \* the session's Conn: [alive, raw, CloseOnContextDone]
    peer,       \* the client's end of the control socket: "open" or "closed"
    inbox,      \* bytes the client sent that the server has not read yet
    out,        \* the messages the server wrote on the control socket
    ret,        \* the error the last ReadMessage/WriteMessage call returned
    hctx,       \* the context made by Server.handle
    handler,    \* the handler Server.handle chose by req.Cmd
    helper,     \* the goroutine started by the last Conn.processMessage
    server,     \* the upstream socket of a tcpConn
    upPeer,     \* the remote end of the upstream socket
    bindL,      \* the listener of handleBIND
    income,     \* udpConn.income
    outcome,    \* the socket wrapped by udpConn.outcome (UDPConn.data)
    task,       \* the two relay goroutines of conn.Transfer
    waiter,     \* the goroutine UDPConn.onTCPClose
    cAuth,      \* Client.Auth
    call,       \* the method of Client that was called
    cctx,       \* the context given to the call: "live" or "done"
    cpc,        \* where the call is
    proxy,      \* the Conn made by Client.proxy
    proxyEnd,   \* the proxy server's end of that connection
    cin,        \* bytes the proxy sent that the client has not read yet
    cmethod,    \* the method Negotiator.Request returned
    csent,      \* the messages the client wrote to the proxy
    crecv,      \* the replies Client.readReply decoded
    sink,       \* what was delivered on the channel bindAddr
    cret,       \* what the call returned: [stream, err, cause]
    message,    \* a message value given to Write
    wire,       \* the bytes Write produced
    back,       \* what Read made of the bytes
    cut,        \* where the bytes were split in two reads (0: one read)
    stage,      \* where the round trip of message is
    assoc,      \* a udpConn: [pc, waiter, client, income, outcome, task]
    dgram,      \* the datagram waiting on its client-facing socket
    firstSrc,   \* the source of the first datagram read from that socket
    sent,       \* the datagrams written to upstream by income.WriteTo
    reply,      \* the datagram waiting on its upstream-facing socket
    toClient,   \* the datagrams written on the client-facing socket
    rf          \* a call of UDPConn.ReadFrom of a client: [bytes, p, n, addr, err]

srvVars == <<Auth, Timeout, srvCtx, listener, servePc, panicked>>
ctlVars == <<pc, client, peer, inbox, out, ret, hctx, handler, helper>>
relVars == <<server, upPeer, bindL, income, outcome, task, waiter>>
cliVars == <<cAuth, call, cctx, cpc, proxy, proxyEnd, cin, cmethod, csent, crecv, sink, cret>>
wireVars == <<message, wire, back, cut, stage>>
udpVars == <<assoc, dgram, firstSrc, sent, reply, toClient, rf>>
vars == <<srvVars, ctlVars, relVars, cliVars, wireVars, udpVars>>

\* -------------------------------------------------- the framed connection
\* closes counts the calls of Close on the raw socket.
NewConn == [alive |-> TRUE, raw |-> "open", CloseOnContextDone |-> TRUE, closes |-> 0]

ConnClose(c) == [c EXCEPT !.alive = FALSE, !.raw = "closed", !.closes = @ + 1]

onContextDone_keepsOpen(c) == c

onContextDone(c) == IF c.CloseOnContextDone THEN ConnClose(c) ELSE c

\* What the helper goroutine's codec call can come back with.
\* A read sees the next message, or the end of the stream; with neither it
\* stays blocked.
rawRead(c, in, peerSt, eofMsg) ==
    IF c.raw = "closed" THEN {eofMsg}
    ELSE IF in # <<>> THEN {in[1]}
    ELSE IF peerSt = "closed" THEN {eofMsg}
    ELSE {}

\* A write: the message goes out, or the socket refuses it.
rawWrite(c, peerSt, msg) ==
    IF c.raw = "closed" THEN {[err |-> ProtoErr, val |-> <<>>]}
    ELSE IF peerSt = "closed"
         THEN {[err |-> ProtoErr, val |-> <<>>], [err |-> NilErr, val |-> <<msg>>]}
         ELSE {[err |-> NilErr, val |-> <<msg>>]}

\* The results of Conn.processMessage: the helper's result, or, when the
\* context is done, ctx.Err() after onContextDone; what the abandoned helper
\* did by then is one of lost.
processMessage(c, ctxDone, io, lost) ==
    {[err |-> r.err, val |-> r.val, conn |-> c] : r \in io}
    \cup (IF ctxDone
          THEN {[err |-> CtxErr, val |-> v, conn |-> onContextDone(c)] : v \in lost}
          ELSE {})

\* decoded is what msg.Read made of the bytes rawRead saw.
ReadMessage(c, ctxDone, decoded, eofMsg) ==
    processMessage(c, ctxDone, decoded, {eofMsg})

WriteMessage(c, ctxDone, peerSt, msg) ==
    processMessage(c, ctxDone, rawWrite(c, peerSt, msg),
                   {r.val : r \in rawWrite(c, peerSt, msg)} \cup {<<>>})

\* ----------------------------------------------------------------- codecs
isSOCKS5(ver) == ver = Version

NegotiationRequest_Read_anyVersion(m) ==
    IF m.eof THEN [err |-> ProtoErr, val |-> m]
    ELSE [err |-> NilErr, val |-> m]

NegotiationRequest_Read(m) ==
    IF ~isSOCKS5(m.ver) THEN [err |-> ProtoErr, val |-> m]
    ELSE IF m.eof THEN [err |-> ProtoErr, val |-> m]
    ELSE [err |-> NilErr, val |-> m]

PassRequest_Read(m) ==
    IF m.ver # subnegotiationVersion THEN [err |-> ProtoErr, val |-> m]
    ELSE IF m.eof THEN [err |-> ProtoErr, val |-> m]
    ELSE [err |-> NilErr, val |-> m]

Valid(c) == c < 4

Addr_Read(m) ==
    IF m.eof THEN IoErr
    ELSE IF m.atyp \in {AddrIPV4, AddrIPv6, AddrDomain} THEN NilErr
    ELSE SOCKSError(RepAddrNotSupported, ProtoErr)

Request_Read(m) ==
    IF ~isSOCKS5(m.ver) THEN [err |-> ProtoErr, val |-> m]
    ELSE IF ~Valid(m.cmd) THEN [err |-> SOCKSError(RepCmdNotSupported, ProtoErr), val |-> m]
    ELSE [err |-> Addr_Read(m), val |-> m]

\* The messages of the log out.
NegotiationReply_asReply(method) == [type |-> "rep", code |-> method, bnd |-> "-"]

NegotiationReply(method) == [type |-> "neg", code |-> method, bnd |-> "-"]
PassReply(status) == [type |-> "pass", code |-> status, bnd |-> "-"]
Reply(rep, bnd) == [type |-> "rep", code |-> rep, bnd |-> bnd]
NilAddr == "0.0.0.0:0"

\* ------------------------------------------------------------ the server
timeoutEnabled == Timeout # 0

srvDone == srvCtx = "cancelled"
hDone(s) == hctx[s] = "expired"

isMethodSupported(method, methods) ==
    \E i \in 1..Len(methods) : methods[i] = method

validCredentials_never(a, uname, passwd) == FALSE

validCredentials(a, uname, passwd) == a.user = uname /\ a.pass = passwd

\* No method of a Client has been called: the fields of NewClient.
NoCall ==
    /\ cAuth = [method |-> MethodNotRequired, user |-> "", pass |-> ""]
    /\ call = "none"
    /\ cctx = "live"
    /\ cpc = "none"
    /\ proxy = NewConn
    /\ proxyEnd = "open"
    /\ cin = <<>>
    /\ cmethod = MethodNotRequired
    /\ csent = <<>>
    /\ crecv = <<>>
    /\ sink = <<>>
    /\ cret = [stream |-> FALSE, err |-> NilErr, cause |-> "none"]

\* No message is being written or read outside a session.
NoMessage ==
    /\ message = "none"
    /\ wire = <<>>
    /\ back = "none"
    /\ cut = 0
    /\ stage = "none"

\* No association and no UDPConn is followed datagram by datagram.
NoDatagram ==
    /\ assoc = [pc |-> "none", waiter |-> "none", client |-> NewConn,
                income |-> "none", outcome |-> "none", task |-> <<"none", "none">>]
    /\ dgram = <<>>
    /\ firstSrc = "none"
    /\ sent = <<>>
    /\ reply = <<>>
    /\ toClient = <<>>
    /\ rf = <<>>

Running == {"copy", "loop"}

\* A slot is free again when serve returned and none of its goroutines can
\* take another step.
Idle(s) ==
    \/ pc[s] = "free"
    \/ /\ pc[s] = "returned"
       /\ \A i \in {1, 2} : task[s][i] \notin Running
       /\ waiter[s] # "read"

Init ==
    /\ Auth \in Auths
    /\ Timeout \in Timeouts
    /\ srvCtx = "live"
    /\ listener = "open"
    /\ servePc = "accepting"
    /\ panicked = FALSE
    /\ pc = [s \in Sessions |-> "free"]
    /\ client = [s \in Sessions |-> NewConn]
    /\ peer = [s \in Sessions |-> "open"]
    /\ inbox = [s \in Sessions |-> <<>>]
    /\ out = [s \in Sessions |-> <<>>]
    /\ ret = [s \in Sessions |-> NilErr]
    /\ hctx = [s \in Sessions |-> "none"]
    /\ handler = [s \in Sessions |-> "none"]
    /\ helper = [s \in Sessions |-> "none"]
    /\ server = [s \in Sessions |-> "none"]
    /\ upPeer = [s \in Sessions |-> "open"]
    /\ bindL = [s \in Sessions |-> "none"]
    /\ income = [s \in Sessions |-> "none"]
    /\ outcome = [s \in Sessions |-> "none"]
    /\ task = [s \in Sessions |-> <<"none", "none">>]
    /\ waiter = [s \in Sessions |-> "none"]
    /\ NoCall
    /\ NoMessage
    /\ NoDatagram

\* Server.Serve: Accept returned a connection; go srv.serve(c), which makes
\* the Conn and blocks reading the negotiation request.
Serve(s) ==
    /\ ~panicked
    /\ servePc = "accepting"
    /\ listener = "open"
    /\ Idle(s)
    /\ pc' = [pc EXCEPT ![s] = "negRead"]
    /\ client' = [client EXCEPT ![s] = NewConn]
    /\ peer' = [peer EXCEPT ![s] = "open"]
    /\ inbox' = [inbox EXCEPT ![s] = <<>>]
    /\ out' = [out EXCEPT ![s] = <<>>]
    /\ ret' = [ret EXCEPT ![s] = NilErr]
    /\ hctx' = [hctx EXCEPT ![s] = "none"]
    /\ handler' = [handler EXCEPT ![s] = "none"]
    /\ helper' = [helper EXCEPT ![s] = "none"]
    /\ server' = [server EXCEPT ![s] = "none"]
    /\ upPeer' = [upPeer EXCEPT ![s] = "open"]
    /\ bindL' = [bindL EXCEPT ![s] = "none"]
    /\ income' = [income EXCEPT ![s] = "none"]
    /\ outcome' = [outcome EXCEPT ![s] = "none"]
    /\ task' = [task EXCEPT ![s] = <<"none", "none">>]
    /\ waiter' = [waiter EXCEPT ![s] = "none"]
    /\ UNCHANGED srvVars
    /\ UNCHANGED <<cliVars, wireVars, udpVars>>

\* Server.Serve: Accept returned an error; Serve returns it.
ServeReturn ==
    /\ ~panicked
    /\ servePc = "accepting"
    /\ listener # "open"
    /\ servePc' = "returned"
    /\ UNCHANGED <<Auth, Timeout, srvCtx, listener, panicked, ctlVars, relVars>>
    /\ UNCHANGED <<cliVars, wireVars, udpVars>>

\* Server.Close
Close ==
    /\ ~panicked
    /\ srvCtx = "live"
    /\ srvCtx' = "cancelled"
    /\ listener' = "closed"
    /\ UNCHANGED <<Auth, Timeout, servePc, panicked, ctlVars, relVars>>
    /\ UNCHANGED <<cliVars, wireVars, udpVars>>

\* ------------------------------------------------------- a session, step by step
\* The control part of a step of serve: where it goes, the Conn, the log of
\* written messages, the error of the last message call; the read consumed
\* what the client had sent.
Ctl(s, p, c, log, e) ==
    /\ pc' = [pc EXCEPT ![s] = p]
    /\ client' = [client EXCEPT ![s] = c]
    /\ out' = [out EXCEPT ![s] = log]
    /\ ret' = [ret EXCEPT ![s] = e]
    /\ inbox' = [inbox EXCEPT ![s] = <<>>]
    /\ helper' = [helper EXCEPT ![s] = IF e = CtxErr THEN "handler" ELSE "done"]

\* The context Server.handle makes on entry.
handleCtx == IF timeoutEnabled THEN "timeout" ELSE "background"

\* The client sends the message the server is waiting for.
ClientSend(s) ==
    /\ ~panicked
    /\ peer[s] = "open"
    /\ inbox[s] = <<>>
    /\ \E m \in (CASE pc[s] = "negRead" -> NegInputs
                   [] pc[s] = "authRead" -> PassInputs
                   [] pc[s] = "reqRead" -> ReqInputs
                   [] OTHER -> {}) :
          inbox' = [inbox EXCEPT ![s] = <<m>>]
    /\ UNCHANGED <<srvVars, pc, client, peer, out, ret, hctx, handler, helper, relVars>>
    /\ UNCHANGED <<cliVars, wireVars, udpVars>>

\* The client closes its end of the control connection.
ClientClose(s) ==
    /\ ~panicked
    /\ pc[s] \notin {"free", "returned"}
    /\ peer[s] = "open"
    /\ peer' = [peer EXCEPT ![s] = "closed"]
    /\ UNCHANGED <<srvVars, pc, client, inbox, out, ret, hctx, handler, helper, relVars>>
    /\ UNCHANGED <<cliVars, wireVars, udpVars>>

\* The remote end of the upstream connection closes.
UpstreamClose(s) ==
    /\ ~panicked
    /\ pc[s] = "transfer"
    /\ server[s] = "open"
    /\ upPeer[s] = "open"
    /\ upPeer' = [upPeer EXCEPT ![s] = "closed"]
    /\ UNCHANGED <<srvVars, ctlVars, server, bindL, income, outcome, task, waiter>>
    /\ UNCHANGED <<cliVars, wireVars, udpVars>>

\* The deadline of the context of Server.handle passes.
HandleTimeout(s) ==
    /\ ~panicked
    /\ hctx[s] = "timeout"
    /\ hctx' = [hctx EXCEPT ![s] = "expired"]
    /\ UNCHANGED <<srvVars, pc, client, peer, inbox, out, ret, handler, helper, relVars>>
    /\ UNCHANGED <<cliVars, wireVars, udpVars>>

\* Server.auth, first half: Negotiator.Reply under srv.ctx, then the entry
\* of Auth.Reply (noAuth.Reply returns at once and Server.handle starts).
Negotiator_Reply(s) ==
    /\ ~panicked
    /\ pc[s] = "negRead"
    /\ \E r \in ReadMessage(client[s], srvDone,
                            {NegotiationRequest_Read(m) :
                                m \in rawRead(client[s], inbox[s], peer[s], NegEOF)},
                            NegEOF) :
         IF r.err # NilErr
         THEN /\ Ctl(s, "returned", r.conn, out[s], r.err)
              /\ UNCHANGED hctx
         ELSE IF ~isMethodSupported(Auth.method, r.val.methods)
         THEN \E w \in WriteMessage(r.conn, srvDone, peer[s],
                                    NegotiationReply(MethodNoAcceptable)) :
                 /\ Ctl(s, "returned", w.conn, out[s] \o w.val, w.err)
                 /\ UNCHANGED hctx
         ELSE \E w \in WriteMessage(r.conn, srvDone, peer[s],
                                    NegotiationReply(Auth.method)) :
                 IF w.err # NilErr
                 THEN /\ Ctl(s, "returned", w.conn, out[s] \o w.val, w.err)
                      /\ UNCHANGED hctx
                 ELSE IF Auth.method = MethodPassword
                 THEN /\ Ctl(s, "authRead", w.conn, out[s] \o w.val, w.err)
                      /\ UNCHANGED hctx
                 ELSE /\ Ctl(s, "reqRead", w.conn, out[s] \o w.val, w.err)
                      /\ hctx' = [hctx EXCEPT ![s] = handleCtx]
    /\ UNCHANGED <<srvVars, peer, handler, relVars>>
    /\ UNCHANGED <<cliVars, wireVars, udpVars>>

\* Server.auth, second half: PassAuth.Reply under srv.ctx.
PassAuth_Reply(s) ==
    /\ ~panicked
    /\ pc[s] = "authRead"
    /\ \E r \in ReadMessage(client[s], srvDone,
                            {PassRequest_Read(m) :
                                m \in rawRead(client[s], inbox[s], peer[s], PassEOF)},
                            PassEOF) :
         IF r.err # NilErr
         THEN /\ Ctl(s, "returned", r.conn, out[s], r.err)
              /\ UNCHANGED hctx
         ELSE \E f \in (IF ~validCredentials(Auth, Auth.user, Auth.pass)
                        THEN WriteMessage(r.conn, srvDone, peer[s], PassReply(statusFailure))
                        ELSE {[err |-> NilErr, val |-> <<>>, conn |-> r.conn]}) :
              \E w \in WriteMessage(f.conn, srvDone, peer[s], PassReply(statusOK)) :
                 IF w.err # NilErr
                 THEN /\ Ctl(s, "returned", w.conn, out[s] \o f.val \o w.val, w.err)
                      /\ UNCHANGED hctx
                 ELSE /\ Ctl(s, "reqRead", w.conn, out[s] \o f.val \o w.val, w.err)
                      /\ hctx' = [hctx EXCEPT ![s] = handleCtx]
    /\ UNCHANGED <<srvVars, peer, handler, relVars>>
    /\ UNCHANGED <<cliVars, wireVars, udpVars>>

\* The goroutine of a message call that processMessage abandoned on
\* ctx.Done(): its codec call returns (onContextDone closed the socket) and
\* it goes on to send on res, a channel nobody receives from any more.
messageHandler(s) ==
    /\ ~panicked
    /\ helper[s] = "handler"
    /\ client[s].raw = "closed" \/ peer[s] = "closed"
    /\ helper' = [helper EXCEPT ![s] = "send"]
    /\ UNCHANGED <<srvVars, pc, client, peer, inbox, out, ret, hctx, handler, relVars>>
    /\ UNCHANGED <<cliVars, wireVars, udpVars>>

\* The tail of Server.handle for a handler that failed with a *Error:
\* sendFailReply, client.Close(), and serve returns.
sendFailReply(s, c, code, log) ==
    \E w \in WriteMessage(c, hDone(s), peer[s], Reply(code, NilAddr)) :
        Ctl(s, "returned", ConnClose(w.conn), log \o w.val, w.err)

\* NewUDPConnSize starts the waiter; udpConn.Transfer and tcpConn.Transfer
\* start the two relay goroutines.
startTransfer(s, kind) ==
    /\ task' = [task EXCEPT ![s] = IF kind = "udp" THEN <<"loop", "loop">>
                                                    ELSE <<"copy", "copy">>]
    /\ waiter' = [waiter EXCEPT ![s] = IF kind = "udp" THEN "read" ELSE "none"]

\* Server.handle: the request is read under the context of handle and the
\* handler chosen; handleUDP and the start of handleBIND run to their end
\* or to their next blocking call.
handle(s) ==
    /\ ~panicked
    /\ pc[s] = "reqRead"
    /\ \E r \in ReadMessage(client[s], hDone(s),
                            {Request_Read(m) :
                                m \in rawRead(client[s], inbox[s], peer[s], ReqEOF)},
                            ReqEOF) :
         IF r.err # NilErr
            THEN /\ Ctl(s, "returned", r.conn, out[s], r.err)
                 /\ hctx' = [hctx EXCEPT ![s] = "none"]
                 /\ UNCHANGED <<handler, panicked, relVars>>
            ELSE CASE r.val.cmd = CmdConnect ->
                      /\ Ctl(s, "dial", r.conn, out[s], r.err)
                      /\ handler' = [handler EXCEPT ![s] = "CONNECT"]
                      /\ UNCHANGED <<hctx, panicked, relVars>>
                   [] r.val.cmd = CmdBind ->
                      /\ handler' = [handler EXCEPT ![s] = "BIND"]
                      /\ UNCHANGED <<panicked, server, upPeer, income, outcome, task, waiter>>
                      /\ \E listened \in BOOLEAN :
                           IF ~listened
                           THEN /\ sendFailReply(s, r.conn, RepServerFailure, out[s])
                                /\ hctx' = [hctx EXCEPT ![s] = "none"]
                                /\ UNCHANGED bindL
                           ELSE \E w \in WriteMessage(r.conn, hDone(s), peer[s],
                                                      Reply(RepSucceeded, "listener")) :
                                  IF w.err # NilErr
                                  THEN /\ Ctl(s, "returned", w.conn, out[s] \o w.val, w.err)
                                       /\ hctx' = [hctx EXCEPT ![s] = "none"]
                                       /\ bindL' = [bindL EXCEPT ![s] = "closed"]
                                  ELSE /\ Ctl(s, "accept", w.conn, out[s] \o w.val, w.err)
                                       /\ bindL' = [bindL EXCEPT ![s] = "open"]
                                       /\ UNCHANGED hctx
                   [] r.val.cmd = CmdUDP ->
                      /\ handler' = [handler EXCEPT ![s] = "UDP"]
                      /\ hctx' = [hctx EXCEPT ![s] = "none"]
                      /\ UNCHANGED <<panicked, server, upPeer, bindL>>
                      /\ \E first \in BOOLEAN, second \in BOOLEAN :
                           IF ~first
                           THEN /\ sendFailReply(s, r.conn, RepServerFailure, out[s])
                                /\ UNCHANGED <<income, outcome, task, waiter>>
                           ELSE IF ~second
                           THEN /\ sendFailReply(s, r.conn, RepServerFailure, out[s])
                                /\ outcome' = [outcome EXCEPT ![s] = "open"]
                                /\ UNCHANGED <<income, task, waiter>>
                           ELSE /\ outcome' = [outcome EXCEPT ![s] = "open"]
                                /\ income' = [income EXCEPT ![s] = "open"]
                                /\ \E w \in WriteMessage(r.conn, hDone(s), peer[s],
                                                         Reply(RepSucceeded, "outcome")) :
                                     IF w.err # NilErr
                                     THEN /\ Ctl(s, "returned", w.conn, out[s] \o w.val, w.err)
                                          /\ UNCHANGED <<task, waiter>>
                                     ELSE /\ Ctl(s, "transfer", w.conn, out[s] \o w.val, w.err)
                                          /\ startTransfer(s, "udp")
                   [] OTHER ->
                      \* no case of the switch: handle returns (nil, nil) and
                      \* serve calls conn.Request() on the nil conn
                      /\ Ctl(s, "panicked", r.conn, out[s], r.err)
                      /\ panicked' = TRUE
                      /\ hctx' = [hctx EXCEPT ![s] = "none"]
                      /\ UNCHANGED <<handler, relVars>>
    /\ UNCHANGED <<Auth, Timeout, srvCtx, listener, servePc, peer>>
    /\ UNCHANGED <<cliVars, wireVars, udpVars>>

\* Server.handleCONNECT: DialContext returns.
handleCONNECT(s) ==
    /\ ~panicked
    /\ pc[s] = "dial"
    /\ hctx' = [hctx EXCEPT ![s] = "none"]
    /\ \E dialed \in (IF hDone(s) THEN {FALSE} ELSE BOOLEAN) :
         IF ~dialed
         THEN /\ sendFailReply(s, client[s], RepHostUnreachable, out[s])
              /\ UNCHANGED <<server, task, waiter>>
         ELSE /\ server' = [server EXCEPT ![s] = "open"]
              /\ \E w \in WriteMessage(client[s], hDone(s), peer[s],
                                       Reply(RepSucceeded, "server.local")) :
                   IF w.err # NilErr
                   THEN /\ Ctl(s, "returned", w.conn, out[s] \o w.val, w.err)
                        /\ UNCHANGED <<task, waiter>>
                   ELSE /\ Ctl(s, "transfer", w.conn, out[s] \o w.val, w.err)
                        /\ startTransfer(s, "tcp")
    /\ UNCHANGED <<srvVars, peer, handler, upPeer, bindL, income, outcome>>
    /\ UNCHANGED <<cliVars, wireVars, udpVars>>

\* Server.handleBIND: listener.Accept returns (it takes no context), the
\* second reply is written and the deferred listener.Close() runs.
handleBIND(s) ==
    /\ ~panicked
    /\ pc[s] = "accept"
    /\ hctx' = [hctx EXCEPT ![s] = "none"]
    /\ bindL' = [bindL EXCEPT ![s] = "closed"]
    /\ \E accepted \in BOOLEAN :
         IF ~accepted
         THEN /\ sendFailReply(s, client[s], RepServerFailure, out[s])
              /\ UNCHANGED <<server, task, waiter>>
         ELSE /\ server' = [server EXCEPT ![s] = "open"]
              /\ \E w \in WriteMessage(client[s], hDone(s), peer[s],
                                       Reply(RepSucceeded, "server.remote")) :
                   IF w.err # NilErr
                   THEN /\ Ctl(s, "returned", w.conn, out[s] \o w.val, w.err)
                        /\ UNCHANGED <<task, waiter>>
                   ELSE /\ Ctl(s, "transfer", w.conn, out[s] \o w.val, w.err)
                        /\ startTransfer(s, "tcp")
    /\ UNCHANGED <<srvVars, peer, handler, upPeer, income, outcome>>
    /\ UNCHANGED <<cliVars, wireVars, udpVars>>

\* ---------------------------------------------------------------- relays
tcpConn_Close_clientOnly(c, sv) == [client |-> ConnClose(c), server |-> sv]

tcpConn_Close(c, sv) == [client |-> ConnClose(c), server |-> "closed"]

UDPConn_Close(control, data) ==
    [control |-> [control EXCEPT !.raw = "closed", !.closes = @ + 1], data |-> "closed"]

udpConn_Close_outcomeOnly(c, inc, outc) ==
    [client |-> UDPConn_Close(c, outc).control,
     income |-> inc,
     outcome |-> UDPConn_Close(c, outc).data]

udpConn_Close(c, inc, outc) ==
    [client |-> UDPConn_Close(c, outc).control,
     income |-> "closed",
     outcome |-> UDPConn_Close(c, outc).data]

\* The source of copy i of a TCP relay has ended: the peer closed it or the
\* socket was closed here.
SourceEnded(s, i) ==
    IF i = 1 THEN peer[s] = "closed" \/ client[s].raw = "closed"
             ELSE upPeer[s] = "closed" \/ server[s] = "closed"

\* tcpConn.transferTo: io.Copy returns; the goroutine goes on to send on
\* result.  Copy 1 is client to upstream, copy 2 upstream to client.
transferTo(s, i) ==
    /\ ~panicked
    /\ handler[s] \in {"CONNECT", "BIND"}
    /\ task[s][i] = "copy"
    /\ SourceEnded(s, 1) \/ SourceEnded(s, 2)
    /\ task' = [task EXCEPT ![s][i] = "send"]
    /\ UNCHANGED <<srvVars, ctlVars, server, upPeer, bindL, income, outcome, waiter>>
    /\ UNCHANGED <<cliVars, wireVars, udpVars>>

\* udpConn.transferIncome: ReadHeader or WriteTo failed and the loop is left.
\* A datagram that does not decode can arrive at any time.
transferIncome(s) ==
    /\ ~panicked
    /\ handler[s] = "UDP"
    /\ task[s][1] = "loop"
    /\ task' = [task EXCEPT ![s][1] = "send"]
    /\ UNCHANGED <<srvVars, ctlVars, server, upPeer, bindL, income, outcome, waiter>>
    /\ UNCHANGED <<cliVars, wireVars, udpVars>>

\* udpConn.transferOutcome: ReadFrom or WriteTo failed and the loop is left.
transferOutcome(s) ==
    /\ ~panicked
    /\ handler[s] = "UDP"
    /\ task[s][2] = "loop"
    /\ income[s] = "closed" \/ outcome[s] = "closed"
    /\ task' = [task EXCEPT ![s][2] = "send"]
    /\ UNCHANGED <<srvVars, ctlVars, server, upPeer, bindL, income, outcome, waiter>>
    /\ UNCHANGED <<cliVars, wireVars, udpVars>>

\* UDPConn.onTCPClose: the zero-length read on the control connection
\* returns, then UDPConn.Close.
onTCPClose(s) ==
    /\ ~panicked
    /\ waiter[s] = "read"
    /\ waiter' = [waiter EXCEPT ![s] = "done"]
    /\ client' = [client EXCEPT ![s] = UDPConn_Close(client[s], outcome[s]).control]
    /\ outcome' = [outcome EXCEPT ![s] = UDPConn_Close(client[s], outcome[s]).data]
    /\ UNCHANGED <<srvVars, pc, peer, inbox, out, ret, hctx, handler, helper,
                   server, upPeer, bindL, income, task>>
    /\ UNCHANGED <<cliVars, wireVars, udpVars>>

\* conn.Transfer returns (srv.ctx is done, or a relay goroutine delivered
\* on result), then conn.Close() and serve returns.
Transfer(s) ==
    /\ ~panicked
    /\ pc[s] = "transfer"
    /\ \/ /\ srvDone
          /\ UNCHANGED task
       \/ \E i \in {1, 2} :
            /\ task[s][i] = "send"
            /\ task' = [task EXCEPT ![s][i] = "done"]
    /\ pc' = [pc EXCEPT ![s] = "returned"]
    /\ IF handler[s] = "UDP"
       THEN /\ client' = [client EXCEPT ![s] = udpConn_Close(client[s], income[s], outcome[s]).client]
            /\ income' = [income EXCEPT ![s] = udpConn_Close(client[s], income[s], outcome[s]).income]
            /\ outcome' = [outcome EXCEPT ![s] = udpConn_Close(client[s], income[s], outcome[s]).outcome]
            /\ UNCHANGED server
       ELSE /\ client' = [client EXCEPT ![s] = tcpConn_Close(client[s], server[s]).client]
            /\ server' = [server EXCEPT ![s] = tcpConn_Close(client[s], server[s]).server]
            /\ UNCHANGED <<income, outcome>>
    /\ UNCHANGED <<srvVars, peer, inbox, out, ret, hctx, handler, helper,
                   upPeer, bindL, waiter>>
    /\ UNCHANGED <<cliVars, wireVars, udpVars>>

Next ==
    \/ \E s \in Sessions : Serve(s)
    \/ ServeReturn
    \/ Close
    \/ \E s \in Sessions : ClientSend(s)
    \/ \E s \in Sessions : ClientClose(s)
    \/ \E s \in Sessions : UpstreamClose(s)
    \/ \E s \in Sessions : HandleTimeout(s)
    \/ \E s \in Sessions : Negotiator_Reply(s)
    \/ \E s \in Sessions : PassAuth_Reply(s)
    \/ \E s \in Sessions : handle(s)
    \/ \E s \in Sessions : handleCONNECT(s)
    \/ \E s \in Sessions : handleBIND(s)
    \/ \E s \in Sessions : messageHandler(s)
    \/ \E s \in Sessions : \E i \in {1, 2} : transferTo(s, i)
    \/ \E s \in Sessions : transferIncome(s)
    \/ \E s \in Sessions : transferOutcome(s)
    \/ \E s \in Sessions : onTCPClose(s)
    \/ \E s \in Sessions : Transfer(s)

Spec == Init /\ [][Next]_vars

\* ---------------------------------------------------------------- fairness
\* The steps of a session that need nothing more from the outside: a read
\* whose bytes have arrived, whose stream has ended or whose context is
\* done, the dial, an expired deadline, a copy whose source has ended, a
\* loop whose socket is closed, the waiter once the control connection is
\* closed, and the select of Transfer.  The Go scheduler runs a goroutine
\* that can run.  handleBIND is not among them: Accept waits for a peer.
RelayInternal(s) ==
    \/ \E i \in {1, 2} : SourceEnded(s, i) /\ transferTo(s, i)
    \/ outcome[s] = "closed" /\ transferIncome(s)
    \/ income[s] = "closed" /\ transferOutcome(s)
    \/ (peer[s] = "closed" \/ client[s].raw = "closed") /\ onTCPClose(s)
    \/ Transfer(s)

Internal(s) ==
    \/ Negotiator_Reply(s)
    \/ PassAuth_Reply(s)
    \/ handle(s)
    \/ handleCONNECT(s)
    \/ HandleTimeout(s)
    \/ messageHandler(s)
    \/ RelayInternal(s)

FairSpec == Init /\ [][Next]_vars /\ \A s \in Sessions : WF_vars(Internal(s))

\* ------------------------------------------------------- the relays alone
\* The sessions at the moment serve calls conn.Transfer: the handshake is
\* over, the replies are written, the sockets are open, the two relay
\* goroutines (and the waiter of a UDP association) have been started.
HandshakeLog(a, h) ==
    <<NegotiationReply(a.method)>>
    \o (IF a.method = MethodPassword THEN <<PassReply(statusOK)>> ELSE <<>>)
    \o (CASE h = "CONNECT" -> <<Reply(RepSucceeded, "server.local")>>
          [] h = "BIND" -> <<Reply(RepSucceeded, "listener"), Reply(RepSucceeded, "server.remote")>>
          [] h = "UDP" -> <<Reply(RepSucceeded, "outcome")>>)

RelayInit ==
    /\ Auth \in Auths
    /\ Timeout \in Timeouts
    /\ srvCtx = "live"
    /\ listener = "open"
    /\ servePc = "accepting"
    /\ panicked = FALSE
    /\ handler \in [Sessions -> {"CONNECT", "BIND", "UDP"}]
    /\ pc = [s \in Sessions |-> "transfer"]
    /\ client = [s \in Sessions |-> NewConn]
    /\ peer = [s \in Sessions |-> "open"]
    /\ inbox = [s \in Sessions |-> <<>>]
    /\ out = [s \in Sessions |-> HandshakeLog(Auth, handler[s])]
    /\ ret = [s \in Sessions |-> NilErr]
    /\ hctx = [s \in Sessions |-> "none"]
    /\ helper = [s \in Sessions |-> "done"]
    /\ server = [s \in Sessions |-> IF handler[s] = "UDP" THEN "none" ELSE "open"]
    /\ upPeer = [s \in Sessions |-> "open"]
    /\ bindL = [s \in Sessions |-> IF handler[s] = "BIND" THEN "closed" ELSE "none"]
    /\ income = [s \in Sessions |-> IF handler[s] = "UDP" THEN "open" ELSE "none"]
    /\ outcome = [s \in Sessions |-> IF handler[s] = "UDP" THEN "open" ELSE "none"]
    /\ task = [s \in Sessions |-> IF handler[s] = "UDP" THEN <<"loop", "loop">>
                                                          ELSE <<"copy", "copy">>]
    /\ waiter = [s \in Sessions |-> IF handler[s] = "UDP" THEN "read" ELSE "none"]
    /\ NoCall
    /\ NoMessage
    /\ NoDatagram

RelayNext ==
    \/ ServeReturn
    \/ Close
    \/ \E s \in Sessions : ClientClose(s)
    \/ \E s \in Sessions : UpstreamClose(s)
    \/ \E s \in Sessions : \E i \in {1, 2} : transferTo(s, i)
    \/ \E s \in Sessions : transferIncome(s)
    \/ \E s \in Sessions : transferOutcome(s)
    \/ \E s \in Sessions : onTCPClose(s)
    \/ \E s \in Sessions : Transfer(s)

RelaySpec == RelayInit /\ [][RelayNext]_vars /\ \A s \in Sessions : WF_vars(RelayInternal(s))

\* ------------------------------------------------------ the bytes on the wire
\* Host texts and the addresses they denote.  net.ParseIP gives the 16-byte
\* form of an address (an IPv4 address as ::ffff:a.b.c.d), or nil for a text
\* that is no address.
\* "a*256" is a name of 256 letters a.
Hosts == {"1.2.3.4", "::1", "::ffff:1.2.3.4", "a.b", "", "a*256"}

Zeros(n) == [i \in 1..n |-> 0]

v4InV6(a) == Zeros(10) \o <<255, 255>> \o a

ParseIP(host) ==
    CASE host = "1.2.3.4" -> v4InV6(<<1, 2, 3, 4>>)
      [] host = "::ffff:1.2.3.4" -> v4InV6(<<1, 2, 3, 4>>)
      [] host = "::1" -> Zeros(15) \o <<1>>
      [] OTHER -> <<>>

\* net.IP.To4: the 4-byte form of an IPv4 or IPv4-mapped address, else nil.
To4(ip) ==
    IF Len(ip) = 4 THEN ip
    ELSE IF Len(ip) = 16 /\ SubSeq(ip, 1, 12) = Zeros(10) \o <<255, 255>>
         THEN SubSeq(ip, 13, 16)
         ELSE <<>>

\* net.IP.String: the text of an address; "?" is the text of an address
\* that is none of Hosts.
IP_String(ip) ==
    CASE To4(ip) = <<1, 2, 3, 4>> -> "1.2.3.4"
      [] ip = Zeros(15) \o <<1>> -> "::1"
      [] OTHER -> "?"

\* []byte(s) and string(b) for the domain names of Hosts.
StringBytes(s) ==
    CASE s = "a.b" -> <<97, 46, 98>>
      [] s = "" -> <<>>
      [] s = "1.2.3.4" -> <<49, 46, 50, 46, 51, 46, 52>>
      [] s = "::1" -> <<58, 58, 49>>
      [] s = "a*256" -> [i \in 1..256 |-> 97]
      [] OTHER -> <<63>>

BytesString(b) ==
    IF \E h \in Hosts : StringBytes(h) = b /\ StringBytes(h) # <<63>>
    THEN CHOOSE h \in Hosts : StringBytes(h) = b
    ELSE "?"

ipLength(version) ==
    CASE version = AddrIPV4 -> 4
      [] version = AddrIPv6 -> 16
      [] OTHER -> 0

ipBytes(ip) ==
    IF To4(ip) # <<>> THEN SubSeq(ip, 13, Len(ip))
    ELSE IF Len(ip) = 16 THEN ip
    ELSE <<>>

PutUint16(v) == <<(v \div 256) % 256, v % 256>>

Uint16(b) == b[1] * 256 + b[2]

\* errio.ErrReader over a source rd, given as the segments its bytes arrive
\* in: one Read of the source gives bytes of one segment only.  A Read
\* fills its buffer with what is left of the segment, up to the buffer's
\* length, and leaves the rest of the buffer zero; at the end of the source
\* it fails, and after a failure every Read fails.
NewReader(rd) ==
    [buf |-> IF rd = <<>> THEN <<>> ELSE Head(rd),
     next |-> IF rd = <<>> THEN <<>> ELSE Tail(rd),
     err |-> FALSE]

ErrReader_Read(r, n) ==
    LET cur == IF r.buf = <<>> /\ r.next # <<>>
               THEN [r EXCEPT !.buf = Head(r.next), !.next = Tail(r.next)]
               ELSE r
    IN  IF r.err THEN [p |-> Zeros(n), r |-> r]
        ELSE IF n = 0 THEN [p |-> <<>>, r |-> r]
        ELSE IF cur.buf = <<>> THEN [p |-> Zeros(n), r |-> [cur EXCEPT !.err = TRUE]]
        ELSE IF Len(cur.buf) <= n
             THEN [p |-> cur.buf \o Zeros(n - Len(cur.buf)), r |-> [cur EXCEPT !.buf = <<>>]]
             ELSE [p |-> SubSeq(cur.buf, 1, n),
                   r |-> [cur EXCEPT !.buf = SubSeq(cur.buf, n + 1, Len(cur.buf))]]

\* io.ReadAll: everything up to the end of the source.
RECURSIVE Concat(_)
Concat(segs) == IF segs = <<>> THEN <<>> ELSE Head(segs) \o Concat(Tail(segs))

ReadAll(r) == IF r.err THEN <<>> ELSE r.buf \o Concat(r.next)

\* Write gives [err, bytes]: the bytes that reached the writer.
Addr_Write(a) ==
    CASE a.Atyp \in {AddrIPV4, AddrIPv6} ->
           IF ParseIP(a.Host) = <<>>
           THEN [err |-> ProtoErr, bytes |-> <<a.Atyp>>]
           ELSE [err |-> NilErr,
                 bytes |-> <<a.Atyp>> \o ipBytes(ParseIP(a.Host)) \o PutUint16(a.Port)]
      [] a.Atyp = AddrDomain ->
           [err |-> NilErr,
            bytes |-> <<a.Atyp, Len(StringBytes(a.Host)) % 256>>
                      \o StringBytes(a.Host) \o PutUint16(a.Port)]
      [] OTHER -> [err |-> NilErr, bytes |-> <<a.Atyp>> \o PutUint16(a.Port)]

\* Addr.Read from reader r: [err, val, r].
Addr_ReadWire(r) ==
    LET t == ErrReader_Read(r, 1) IN
    IF t.r.err
    THEN [err |-> IoErr, val |-> [Atyp |-> 0, Host |-> "", Port |-> 0], r |-> t.r]
    ELSE CASE t.p[1] \in {AddrIPV4, AddrIPv6} ->
                LET i == ErrReader_Read(t.r, ipLength(t.p[1]))
                    port == ErrReader_Read(i.r, 2)
                IN  [err |-> IF port.r.err THEN ProtoErr ELSE NilErr,
                     val |-> [Atyp |-> t.p[1], Host |-> IP_String(i.p), Port |-> Uint16(port.p)],
                     r |-> port.r]
           [] t.p[1] = AddrDomain ->
                LET l == ErrReader_Read(t.r, 1)
                    h == ErrReader_Read(l.r, l.p[1])
                    port == ErrReader_Read(h.r, 2)
                IN  [err |-> IF port.r.err THEN ProtoErr ELSE NilErr,
                     val |-> [Atyp |-> t.p[1], Host |-> BytesString(h.p), Port |-> Uint16(port.p)],
                     r |-> port.r]
           [] OTHER ->
                [err |-> SOCKSError(RepAddrNotSupported, ProtoErr),
                 val |-> [Atyp |-> t.p[1], Host |-> "", Port |-> 0], r |-> t.r]

NegotiationRequest_Write(m) ==
    [err |-> NilErr, bytes |-> <<Version, Len(m.Methods) % 256>> \o m.Methods]

NegotiationRequest_ReadWire(rd) ==
    LET h == ErrReader_Read(NewReader(rd), 2)
        ms == ErrReader_Read(h.r, h.p[2])
    IN  IF ~isSOCKS5(h.p[1])
        THEN [err |-> ProtoErr, val |-> [type |-> "NegotiationRequest", Methods |-> <<>>]]
        ELSE [err |-> IF ms.r.err THEN ProtoErr ELSE NilErr,
              val |-> [type |-> "NegotiationRequest", Methods |-> ms.p]]

NegotiationReply_Write(m) == [err |-> NilErr, bytes |-> <<Version, m.Method>>]

NegotiationReply_ReadWire(rd) ==
    LET h == ErrReader_Read(NewReader(rd), 2) IN
    IF h.r.err THEN [err |-> ProtoErr, val |-> [type |-> "NegotiationReply", Method |-> 0]]
    ELSE IF ~isSOCKS5(h.p[1])
    THEN [err |-> ProtoErr, val |-> [type |-> "NegotiationReply", Method |-> 0]]
    ELSE [err |-> NilErr, val |-> [type |-> "NegotiationReply", Method |-> h.p[2]]]

PassRequest_Write(m) ==
    [err |-> NilErr,
     bytes |-> <<subnegotiationVersion, Len(m.uname) % 256>> \o m.uname
               \o <<Len(m.passwd) % 256>> \o m.passwd]

PassRequest_ReadWire(rd) ==
    LET h == ErrReader_Read(NewReader(rd), 2)
        u == ErrReader_Read(h.r, h.p[2])
        l == ErrReader_Read(u.r, 1)
        p == ErrReader_Read(l.r, l.p[1])
    IN  IF h.p[1] # subnegotiationVersion
        THEN [err |-> ProtoErr, val |-> [type |-> "PassRequest", uname |-> <<>>, passwd |-> <<>>]]
        ELSE [err |-> IF p.r.err THEN ProtoErr ELSE NilErr,
              val |-> [type |-> "PassRequest", uname |-> u.p, passwd |-> p.p]]

PassReply_Write(m) == [err |-> NilErr, bytes |-> <<subnegotiationVersion, m.Status>>]

PassReply_ReadWire(rd) ==
    LET h == ErrReader_Read(NewReader(rd), 2) IN
    IF h.p[1] # subnegotiationVersion
    THEN [err |-> ProtoErr, val |-> [type |-> "PassReply", Status |-> 0]]
    ELSE [err |-> IF h.r.err THEN ProtoErr ELSE NilErr,
          val |-> [type |-> "PassReply", Status |-> h.p[2]]]

Request_Write(m) ==
    [err |-> Addr_Write(m.Dst).err,
     bytes |-> IF Addr_Write(m.Dst).err = NilErr
               THEN <<Version, m.Cmd, 0>> \o Addr_Write(m.Dst).bytes
               ELSE <<>>]

Request_ReadWire(rd) ==
    LET h == ErrReader_Read(NewReader(rd), 3)
        a == Addr_ReadWire(h.r)
    IN  IF ~isSOCKS5(h.p[1])
        THEN [err |-> ProtoErr, val |-> [type |-> "Request", Cmd |-> 0, Dst |-> "nil"]]
        ELSE IF ~Valid(h.p[2])
        THEN [err |-> SOCKSError(RepCmdNotSupported, ProtoErr),
              val |-> [type |-> "Request", Cmd |-> h.p[2], Dst |-> "nil"]]
        ELSE [err |-> a.err, val |-> [type |-> "Request", Cmd |-> h.p[2], Dst |-> a.val]]

\* repType.Valid
RepValid(r) == r < 9

Reply_Write(m) ==
    [err |-> Addr_Write(m.Bnd).err,
     bytes |-> IF Addr_Write(m.Bnd).err = NilErr
               THEN <<Version, m.Rep, 0>> \o Addr_Write(m.Bnd).bytes
               ELSE <<>>]

Reply_ReadWire(rd) ==
    LET h == ErrReader_Read(NewReader(rd), 3)
        a == Addr_ReadWire(h.r)
    IN  IF ~isSOCKS5(h.p[1])
        THEN [err |-> ProtoErr, val |-> [type |-> "Reply", Rep |-> 0, Bnd |-> "nil"]]
        ELSE IF ~RepValid(h.p[2])
        THEN [err |-> ProtoErr, val |-> [type |-> "Reply", Rep |-> h.p[2], Bnd |-> "nil"]]
        ELSE [err |-> a.err, val |-> [type |-> "Reply", Rep |-> h.p[2], Bnd |-> a.val]]

UDPHeader_Write(m) ==
    [err |-> Addr_Write(m.Dst).err,
     bytes |-> IF Addr_Write(m.Dst).err = NilErr
               THEN <<0, 0, m.Frag>> \o Addr_Write(m.Dst).bytes \o m.Data
               ELSE <<>>]

UDPHeader_ReadWire(rd) ==
    LET h == ErrReader_Read(NewReader(rd), 3)
        a == Addr_ReadWire(h.r)
    IN  IF a.err # NilErr
        THEN [err |-> a.err, val |-> [type |-> "UDPHeader", Frag |-> h.p[3], Dst |-> a.val, Data |-> <<>>]]
        ELSE [err |-> NilErr,
              val |-> [type |-> "UDPHeader", Frag |-> h.p[3], Dst |-> a.val, Data |-> ReadAll(a.r)]]

\* Message.Write and Message.Read, by the type of the message.
Message_Write(m) ==
    CASE m.type = "NegotiationRequest" -> NegotiationRequest_Write(m)
      [] m.type = "NegotiationReply" -> NegotiationReply_Write(m)
      [] m.type = "PassRequest" -> PassRequest_Write(m)
      [] m.type = "PassReply" -> PassReply_Write(m)
      [] m.type = "Request" -> Request_Write(m)
      [] m.type = "Reply" -> Reply_Write(m)
      [] m.type = "UDPHeader" -> UDPHeader_Write(m)

Message_Read(type, rd) ==
    CASE type = "NegotiationRequest" -> NegotiationRequest_ReadWire(rd)
      [] type = "NegotiationReply" -> NegotiationReply_ReadWire(rd)
      [] type = "PassRequest" -> PassRequest_ReadWire(rd)
      [] type = "PassReply" -> PassReply_ReadWire(rd)
      [] type = "Request" -> Request_ReadWire(rd)
      [] type = "Reply" -> Reply_ReadWire(rd)
      [] type = "UDPHeader" -> UDPHeader_ReadWire(rd)

\* The valid instances the round trip is tried on: every ATYP, with an
\* empty domain name and an IPv4-mapped IPv6 host among them.
Ports == {0, 258}

Addrs ==
    {[Atyp |-> AddrIPV4, Host |-> "1.2.3.4", Port |-> p] : p \in Ports}
    \cup {[Atyp |-> AddrIPv6, Host |-> h, Port |-> p] : h \in {"::1", "::ffff:1.2.3.4"}, p \in Ports}
    \cup {[Atyp |-> AddrDomain, Host |-> h, Port |-> p] : h \in {"a.b", ""}, p \in Ports}

Messages ==
    {[type |-> "NegotiationRequest", Methods |-> ms] :
        ms \in {<<MethodNotRequired>>, <<MethodPassword>>, <<MethodNotRequired, MethodPassword>>}}
    \cup {[type |-> "NegotiationReply", Method |-> m] :
             m \in {MethodNotRequired, MethodPassword, MethodNoAcceptable}}
    \cup {[type |-> "PassRequest", uname |-> u, passwd |-> p] :
             u \in {<<117>>, <<117, 120>>}, p \in {<<112>>}}
    \cup {[type |-> "PassReply", Status |-> s] : s \in {statusOK, statusFailure}}
    \cup {[type |-> "Request", Cmd |-> c, Dst |-> a] :
             c \in {CmdConnect, CmdBind, CmdUDP}, a \in Addrs}
    \cup {[type |-> "Reply", Rep |-> r, Bnd |-> a] :
             r \in {RepSucceeded, RepHostUnreachable, RepAddrNotSupported}, a \in Addrs}
    \cup {[type |-> "UDPHeader", Frag |-> 0, Dst |-> a, Data |-> d] :
             a \in Addrs, d \in {<<>>, <<7, 0>>}}

\* Instances whose address does not fit its ATYP: an address of the other
\* family, a text that is no address, a name longer than 255 bytes.
OddAddrs ==
    {[Atyp |-> AddrIPV4, Host |-> h, Port |-> 258] : h \in {"::1", "a.b"}}
    \cup {[Atyp |-> AddrIPv6, Host |-> h, Port |-> 258] : h \in {"1.2.3.4", "a.b"}}
    \cup {[Atyp |-> AddrDomain, Host |-> "a*256", Port |-> 258]}

OddMessages ==
    {[type |-> "Request", Cmd |-> CmdConnect, Dst |-> a] : a \in OddAddrs}
    \cup {[type |-> "Reply", Rep |-> RepSucceeded, Bnd |-> a] : a \in OddAddrs}
    \cup {[type |-> "UDPHeader", Frag |-> 0, Dst |-> a, Data |-> <<7, 0>>] : a \in OddAddrs}

\* The server is not serving: it was closed with no session left.
NoServer ==
    /\ Auth = [method |-> MethodNotRequired, user |-> "", pass |-> ""]
    /\ Timeout = 0
    /\ srvCtx = "cancelled"
    /\ listener = "closed"
    /\ servePc = "returned"
    /\ panicked = FALSE
    /\ pc = [s \in Sessions |-> "free"]
    /\ client = [s \in Sessions |-> NewConn]
    /\ peer = [s \in Sessions |-> "open"]
    /\ inbox = [s \in Sessions |-> <<>>]
    /\ out = [s \in Sessions |-> <<>>]
    /\ ret = [s \in Sessions |-> NilErr]
    /\ hctx = [s \in Sessions |-> "none"]
    /\ handler = [s \in Sessions |-> "none"]
    /\ helper = [s \in Sessions |-> "none"]
    /\ server = [s \in Sessions |-> "none"]
    /\ upPeer = [s \in Sessions |-> "open"]
    /\ bindL = [s \in Sessions |-> "none"]
    /\ income = [s \in Sessions |-> "none"]
    /\ outcome = [s \in Sessions |-> "none"]
    /\ task = [s \in Sessions |-> <<"none", "none">>]
    /\ waiter = [s \in Sessions |-> "none"]

CodecInit ==
    /\ NoServer
    /\ NoCall
    /\ NoDatagram
    /\ message \in Messages \cup OddMessages
    /\ wire = <<>>
    /\ back = "none"
    /\ cut = 0
    /\ stage = "made"

\* m.Write(w) on a writer that takes every byte.
WriteWire ==
    /\ stage = "made"
    /\ wire' = Message_Write(message).bytes
    /\ stage' = IF Message_Write(message).err = NilErr THEN "written" ELSE "failed"
    /\ UNCHANGED <<message, back, cut, srvVars, ctlVars, relVars, cliVars, udpVars>>

\* The bytes arrive with another first byte: another VER (or SUBVER).
OtherVersions == {0, 4}

Tamper ==
    /\ stage = "written"
    /\ message.type # "UDPHeader"
    /\ \E v \in OtherVersions : wire' = [wire EXCEPT ![1] = v]
    /\ stage' = "tampered"
    /\ UNCHANGED <<message, back, cut, srvVars, ctlVars, relVars, cliVars, udpVars>>

\* The bytes b as the reads of a stream give them: all at once, or the
\* first k in one read and the rest in the next.
Segments(b, k) ==
    IF k = 0 THEN <<b>> ELSE <<SubSeq(b, 1, k), SubSeq(b, k + 1, Len(b))>>

\* x.Read(r) on a fresh value of the message's type.  A datagram is read
\* whole; the bytes of a stream may come in two reads.
ReadWire ==
    /\ stage \in {"written", "tampered"}
    /\ \E k \in (IF message.type = "UDPHeader" THEN {0} ELSE 0..(Len(wire) - 1)) :
          /\ cut' = k
          /\ back' = Message_Read(message.type, Segments(wire, k))
    /\ stage' = IF stage = "written" THEN "read" ELSE "readTampered"
    /\ UNCHANGED <<message, wire, srvVars, ctlVars, relVars, cliVars, udpVars>>

CodecNext == WriteWire \/ Tamper \/ ReadWire

CodecSpec == CodecInit /\ [][CodecNext]_vars

\* -------------------------------------------------------------- the client
\* What a proxy may answer, by the message the client parses it as; eof
\* marks a stream that ends inside the message.
NegReplyInputs ==
    {[ver |-> Version, method |-> m, eof |-> FALSE] :
        m \in {MethodNotRequired, 1, MethodPassword, MethodNoAcceptable}}
    \cup {[ver |-> 4, method |-> MethodNotRequired, eof |-> FALSE]}
NegReplyEOF == [ver |-> 0, method |-> 0, eof |-> TRUE]

PassReplyInputs ==
    {[ver |-> subnegotiationVersion, status |-> st, eof |-> FALSE] :
        st \in {statusOK, statusFailure}}
    \cup {[ver |-> 0, status |-> statusOK, eof |-> FALSE]}
PassReplyEOF == [ver |-> 0, status |-> 0, eof |-> TRUE]

RepInputs ==
    {[ver |-> Version, rep |-> r, atyp |-> a, bnd |-> b, eof |-> FALSE] :
        r \in {RepSucceeded, RepHostUnreachable, 9},
        a \in {AddrIPV4, 5},
        b \in {"bnd1", "bnd2"}}
    \cup {[ver |-> 4, rep |-> RepSucceeded, atyp |-> AddrIPV4, bnd |-> "bnd1", eof |-> FALSE]}
RepEOF == [ver |-> 0, rep |-> 0, atyp |-> 0, bnd |-> "nil", eof |-> TRUE]

NegotiationReply_Read(m) ==
    IF m.eof THEN [err |-> ProtoErr, val |-> m]
    ELSE IF ~isSOCKS5(m.ver) THEN [err |-> ProtoErr, val |-> m]
    ELSE [err |-> NilErr, val |-> m]

PassReply_Read(m) ==
    IF m.ver # subnegotiationVersion THEN [err |-> ProtoErr, val |-> m]
    ELSE IF m.eof THEN [err |-> ProtoErr, val |-> m]
    ELSE [err |-> NilErr, val |-> m]

Reply_Read(m) ==
    IF ~isSOCKS5(m.ver) THEN [err |-> ProtoErr, val |-> m]
    ELSE IF ~RepValid(m.rep) THEN [err |-> ProtoErr, val |-> m]
    ELSE [err |-> Addr_Read(m), val |-> m]

cDone == cctx = "done"

\* Client.authMethods and Client.auth
authMethods == <<MethodNotRequired, cAuth.method>>

Client_auth(m) ==
    IF m = MethodNotRequired
    THEN [method |-> MethodNotRequired, user |-> "", pass |-> ""]
    ELSE cAuth

\* cmdType of the called method, and the request Client.cmd builds.
CmdOf(c) ==
    CASE c = "Connect" -> CmdConnect
      [] c = "Bind" -> CmdBind
      [] c = "UDP" -> CmdUDP

NewRequest(c) ==
    [type |-> "Request", Cmd |-> CmdOf(c),
     Dst |-> [Atyp |-> AddrIPV4, Host |-> "1.2.3.4", Port |-> 258]]

\* errorContext: the connection's request and the code.
makeErrorContext(req, code) == [Request |-> req, Code |-> code]

\* Client.readReply, given what ReadMessage returned: the reply, or the
\* error with its cause; read is the reply that was decoded.
readReply_anyRep(r, req) ==
    IF r.err # NilErr
    THEN [rep |-> "nil", err |-> r.err, cause |-> "none", read |-> <<>>, conn |-> r.conn]
    ELSE [rep |-> r.val, err |-> NilErr, cause |-> "none", read |-> <<r.val>>, conn |-> r.conn]

readReply(r, req) ==
    IF r.err # NilErr
    THEN [rep |-> "nil", err |-> r.err, cause |-> "none", read |-> <<>>, conn |-> r.conn]
    ELSE IF r.val.rep # RepSucceeded
    THEN [rep |-> "nil",
          err |-> SOCKSError(makeErrorContext(req, r.val.rep).Code,
                             makeErrorContext(req, r.val.rep)),
          cause |-> makeErrorContext(req, r.val.rep),
          read |-> <<r.val>>, conn |-> r.conn]
    ELSE [rep |-> r.val, err |-> NilErr, cause |-> "none", read |-> <<r.val>>, conn |-> r.conn]

\* The results of proxy.ReadMessage(ctx, rep) with a fresh Reply.
ReadReplyMessage ==
    ReadMessage(proxy, cDone,
                {Reply_Read(m) : m \in rawRead(proxy, cin, proxyEnd, RepEOF)},
                RepEOF)

\* The call returns.
Return(stream, err, cause) ==
    /\ cpc' = "returned"
    /\ cret' = [stream |-> stream, err |-> err, cause |-> cause]

ClientInit ==
    /\ NoServer
    /\ NoMessage
    /\ NoDatagram
    /\ cAuth \in Auths
    /\ call \in {"Connect", "Bind", "UDP"}
    /\ cctx = "live"
    /\ cpc = "start"
    /\ proxy = NewConn
    /\ proxyEnd = "open"
    /\ cin = <<>>
    /\ cmethod = MethodNotRequired
    /\ csent = <<>>
    /\ crecv = <<>>
    /\ sink = <<>>
    /\ cret = [stream |-> FALSE, err |-> NilErr, cause |-> "none"]

\* The caller's context is cancelled or its deadline passes.
CtxDone ==
    /\ cpc \notin {"none", "returned"}
    /\ cctx = "live"
    /\ cctx' = "done"
    /\ UNCHANGED <<cAuth, call, cpc, proxy, proxyEnd, cin, cmethod, csent, crecv, sink, cret>>
    /\ UNCHANGED <<srvVars, ctlVars, relVars, wireVars, udpVars>>

\* The proxy closes its end of the connection.
ProxyClose ==
    /\ cpc \notin {"none", "start", "returned"}
    /\ proxyEnd = "open"
    /\ proxyEnd' = "closed"
    /\ UNCHANGED <<cAuth, call, cctx, cpc, proxy, cin, cmethod, csent, crecv, sink, cret>>
    /\ UNCHANGED <<srvVars, ctlVars, relVars, wireVars, udpVars>>

\* The proxy sends the message the client is waiting for.
ProxySend ==
    /\ proxyEnd = "open"
    /\ cin = <<>>
    /\ \E m \in (CASE cpc = "negRead" -> NegReplyInputs
                   [] cpc = "passRead" -> PassReplyInputs
                   [] cpc \in {"repRead", "second"} -> RepInputs
                   [] OTHER -> {}) :
          cin' = <<m>>
    /\ UNCHANGED <<cAuth, call, cctx, cpc, proxy, proxyEnd, cmethod, csent, crecv, sink, cret>>
    /\ UNCHANGED <<srvVars, ctlVars, relVars, wireVars, udpVars>>

\* Client.proxy, to the first read: the dial, NewConn and the write of the
\* negotiation request in Negotiator.Request.
Client_proxy ==
    /\ cpc = "start"
    /\ \E dialed \in (IF cDone THEN {FALSE} ELSE BOOLEAN) :
         IF ~dialed
         THEN /\ Return(FALSE, ProtoErr, "none")
              /\ UNCHANGED <<proxy, csent>>
         ELSE \E w \in WriteMessage(NewConn, cDone, proxyEnd,
                                    [type |-> "NegotiationRequest", Methods |-> authMethods]) :
                /\ proxy' = w.conn
                /\ csent' = csent \o w.val
                /\ IF w.err # NilErr
                   THEN Return(FALSE, ProtoErr, "none")
                   ELSE cpc' = "negRead" /\ UNCHANGED cret
    /\ UNCHANGED <<cAuth, call, cctx, proxyEnd, cin, cmethod, crecv, sink>>
    /\ UNCHANGED <<srvVars, ctlVars, relVars, wireVars, udpVars>>

\* Client.cmd, to its read: the request is built and written on conn c.
Client_cmd(c) ==
    \E w \in WriteMessage(c, cDone, proxyEnd, NewRequest(call)) :
        /\ proxy' = w.conn
        /\ csent' = csent \o w.val
        /\ IF w.err # NilErr
           THEN Return(FALSE, w.err, "none")
           ELSE cpc' = "repRead" /\ UNCHANGED cret

\* Negotiator.Request from its read on, then Client.auth and the start of
\* auth.Request: noAuth.Request returns nil at once and Client.cmd starts,
\* PassAuth.Request writes its request.
Negotiator_Request ==
    /\ cpc = "negRead"
    /\ cin' = <<>>
    /\ \E r \in ReadMessage(proxy, cDone,
                            {NegotiationReply_Read(m) :
                                m \in rawRead(proxy, cin, proxyEnd, NegReplyEOF)},
                            NegReplyEOF) :
         IF r.err # NilErr \/ r.val.method = MethodNoAcceptable
         THEN /\ Return(FALSE, ProtoErr, "none")
              /\ proxy' = r.conn
              /\ UNCHANGED <<cmethod, csent>>
         ELSE /\ cmethod' = r.val.method
              /\ IF Client_auth(r.val.method).method = MethodNotRequired
                 THEN Client_cmd(r.conn)
                 ELSE \E w \in WriteMessage(r.conn, cDone, proxyEnd,
                                            [type |-> "PassRequest",
                                             uname |-> Client_auth(r.val.method).user,
                                             passwd |-> Client_auth(r.val.method).pass]) :
                        /\ proxy' = w.conn
                        /\ csent' = csent \o w.val
                        /\ IF w.err # NilErr
                           THEN Return(FALSE, w.err, "none")
                           ELSE cpc' = "passRead" /\ UNCHANGED cret
    /\ UNCHANGED <<cAuth, call, cctx, proxyEnd, crecv, sink>>
    /\ UNCHANGED <<srvVars, ctlVars, relVars, wireVars, udpVars>>

\* PassAuth.Request from its read on, then Client.cmd to its read.
PassAuth_Request ==
    /\ cpc = "passRead"
    /\ cin' = <<>>
    /\ \E r \in ReadMessage(proxy, cDone,
                            {PassReply_Read(m) :
                                m \in rawRead(proxy, cin, proxyEnd, PassReplyEOF)},
                            PassReplyEOF) :
         IF r.err # NilErr
         THEN /\ Return(FALSE, r.err, "none")
              /\ proxy' = r.conn
              /\ UNCHANGED csent
         ELSE IF r.val.status # statusOK
         THEN /\ Return(FALSE, ProtoErr, "none")
              /\ proxy' = r.conn
              /\ UNCHANGED csent
         ELSE Client_cmd(r.conn)
    /\ UNCHANGED <<cAuth, call, cctx, proxyEnd, cmethod, crecv, sink>>
    /\ UNCHANGED <<srvVars, ctlVars, relVars, wireVars, udpVars>>

\* Client.cmd from its read on, and the rest of Connect and UDP; Bind goes
\* on to send on bindAddr.
Client_cmd_readReply ==
    /\ cpc = "repRead"
    /\ cin' = <<>>
    /\ \E r \in ReadReplyMessage :
         /\ proxy' = readReply(r, NewRequest(call)).conn
         /\ crecv' = crecv \o readReply(r, NewRequest(call)).read
         /\ IF readReply(r, NewRequest(call)).err # NilErr
            THEN Return(FALSE, readReply(r, NewRequest(call)).err,
                        readReply(r, NewRequest(call)).cause)
            ELSE CASE call = "Connect" -> Return(TRUE, NilErr, "none")
                   [] call = "UDP" ->
                        \E dialed \in BOOLEAN :
                            IF dialed THEN Return(TRUE, NilErr, "none")
                                      ELSE Return(FALSE, ProtoErr, "none")
                   [] call = "Bind" -> cpc' = "send" /\ UNCHANGED cret
    /\ UNCHANGED <<cAuth, call, cctx, proxyEnd, cmethod, csent, sink>>
    /\ UNCHANGED <<srvVars, ctlVars, relVars, wireVars, udpVars>>

Bind_send_skipped ==
    /\ cpc = "send"
    /\ cpc' = "second"
    /\ UNCHANGED <<cAuth, call, cctx, proxy, proxyEnd, cin, cmethod, csent, crecv, sink, cret>>
    /\ UNCHANGED <<srvVars, ctlVars, relVars, wireVars, udpVars>>

\* Client.Bind: bindAddr <- rep.Bnd, taken by the receiver of the channel.
Bind_send ==
    /\ cpc = "send"
    /\ sink' = Append(sink, crecv[Len(crecv)].bnd)
    /\ cpc' = "second"
    /\ UNCHANGED <<cAuth, call, cctx, proxy, proxyEnd, cin, cmethod, csent, crecv, cret>>
    /\ UNCHANGED <<srvVars, ctlVars, relVars, wireVars, udpVars>>

\* Client.Bind: the second readReply, and return proxy.Raw(), err.
Bind_readReply ==
    /\ cpc = "second"
    /\ cin' = <<>>
    /\ \E r \in ReadReplyMessage :
         /\ proxy' = readReply(r, NewRequest(call)).conn
         /\ crecv' = crecv \o readReply(r, NewRequest(call)).read
         /\ Return(TRUE, readReply(r, NewRequest(call)).err,
                   readReply(r, NewRequest(call)).cause)
    /\ UNCHANGED <<cAuth, call, cctx, proxyEnd, cmethod, csent, sink>>
    /\ UNCHANGED <<srvVars, ctlVars, relVars, wireVars, udpVars>>

ClientNext ==
    \/ CtxDone
    \/ ProxyClose
    \/ ProxySend
    \/ Client_proxy
    \/ Negotiator_Request
    \/ PassAuth_Request
    \/ Client_cmd_readReply
    \/ Bind_send
    \/ Bind_readReply

ClientSpec == ClientInit /\ [][ClientNext]_vars

\* Each side of the wire on its own: the server against any client, a call
\* of the Client against any proxy, a message written and read back.
ProtocolInit == Init \/ ClientInit \/ CodecInit

ProtocolNext == Next \/ ClientNext \/ CodecNext

ProtocolSpec == ProtocolInit /\ [][ProtocolNext]_vars

\* ------------------------------------------------- the datagrams of a relay
\* One UDP association at the moment udpConn.Transfer started, followed
\* datagram by datagram, and one UDPConn of a client.
\* Number of datagrams the relay forwards upstream before no more arrive.
MaxDatagrams == 2

UDst == [Atyp |-> AddrIPV4, Host |-> "1.2.3.4", Port |-> 258]

\* What may arrive on the client-facing socket: headers with FRAG 0 and
\* FRAG 1, a datagram cut inside its header, one with an unknown ATYP; from
\* the client's endpoint or from another one.
Headers ==
    {[type |-> "UDPHeader", Frag |-> f, Dst |-> UDst, Data |-> d] :
        f \in {0, 1}, d \in {<<7, 0>>, <<8>>}}

Datagrams ==
    {[src |-> e, bytes |-> b] :
        e \in {"client", "other"},
        b \in {UDPHeader_Write(h).bytes : h \in Headers} \cup {<<0, 0>>, <<0, 0, 0, 9, 1, 2>>}}

\* What may arrive on the upstream-facing socket.
Replies == {[src |-> UDst, data |-> <<9>>]}

\* What a proxy may send to the UDPConn of a client, and the buffers the
\* caller gives to ReadFrom.
ClientDatagrams == {UDPHeader_Write(h).bytes : h \in Headers} \cup {<<0, 0>>}

Buffers == {Zeros(0), Zeros(1), Zeros(4)}

\* Addr.UDP
Addr_UDP(a) == [ip |-> ParseIP(a.Host), port |-> a.Port]

UDPInit ==
    /\ NoServer
    /\ NoCall
    /\ NoMessage
    /\ assoc = [pc |-> "transfer", waiter |-> "read", client |-> NewConn,
                income |-> "open", outcome |-> "open", task |-> <<"loop", "loop">>]
    /\ dgram = <<>>
    /\ firstSrc = "none"
    /\ sent = <<>>
    /\ reply = <<>>
    /\ toClient = <<>>
    /\ rf = <<>>

\* A datagram arrives on the client-facing socket.
ClientDatagram ==
    /\ assoc.outcome = "open"
    /\ dgram = <<>>
    /\ Len(sent) < MaxDatagrams
    /\ \E d \in Datagrams : dgram' = <<d>>
    /\ UNCHANGED <<assoc, firstSrc, sent, reply, toClient, rf>>
    /\ UNCHANGED <<srvVars, ctlVars, relVars, cliVars, wireVars>>

\* A datagram arrives on the upstream-facing socket.
UpstreamDatagram ==
    /\ assoc.income = "open"
    /\ reply = <<>>
    /\ \E d \in Replies : reply' = <<d>>
    /\ UNCHANGED <<assoc, dgram, firstSrc, sent, toClient, rf>>
    /\ UNCHANGED <<srvVars, ctlVars, relVars, cliVars, wireVars>>

\* UDPConn.ReadHeader on the datagram d: one Read of the socket, whatever
\* its source, then UDPHeader.Read on its bytes.
UDPConn_ReadHeader(data, d) ==
    IF data = "closed"
    THEN [err |-> IoErr, val |-> "nil"]
    ELSE UDPHeader_ReadWire(<<d[1].bytes>>)

\* One turn of the loop of udpConn.transferIncome: ReadHeader, then
\* income.WriteTo(header.Data, header.Dst.UDP()); on an error of either the
\* loop is left and the goroutine goes on to send on result.
udpConn_transferIncome ==
    /\ assoc.task[1] = "loop"
    /\ assoc.outcome = "closed" \/ dgram # <<>>
    /\ LET h == UDPConn_ReadHeader(assoc.outcome, dgram) IN
       IF h.err # NilErr \/ assoc.income = "closed"
       THEN /\ assoc' = [assoc EXCEPT !.task[1] = "send"]
            /\ firstSrc' = IF firstSrc = "none" /\ assoc.outcome = "open" THEN dgram[1].src ELSE firstSrc
            /\ UNCHANGED sent
       ELSE /\ sent' = Append(sent, [to |-> Addr_UDP(h.val.Dst), data |-> h.val.Data])
            /\ firstSrc' = IF firstSrc = "none" THEN dgram[1].src ELSE firstSrc
            /\ UNCHANGED assoc
    /\ dgram' = <<>>
    /\ UNCHANGED <<reply, toClient, rf>>
    /\ UNCHANGED <<srvVars, ctlVars, relVars, cliVars, wireVars>>

\* UDPConn.WriteTo: the header is written with one Write on c.data.  Write
\* on a UDP socket that is not connected (ListenPacket) fails; the socket
\* of a client (net.Dial) is connected.
UDPConn_WriteTo(data, connected, p, addr) ==
    LET w == UDPHeader_Write([type |-> "UDPHeader", Frag |-> 0, Dst |-> addr, Data |-> p]) IN
    IF w.err # NilErr THEN [err |-> w.err, bytes |-> <<>>]
    ELSE IF data = "closed" \/ ~connected THEN [err |-> ProtoErr, bytes |-> <<>>]
    ELSE [err |-> NilErr, bytes |-> w.bytes]

\* One turn of the loop of udpConn.transferOutcome: income.ReadFrom, then
\* outcome.WriteTo(b[:n], addr), outcome being the UDPConn over the socket
\* handleUDP got from ListenPacket.
udpConn_transferOutcome ==
    /\ assoc.task[2] = "loop"
    /\ assoc.income = "closed" \/ reply # <<>>
    /\ IF assoc.income = "closed"
       THEN /\ assoc' = [assoc EXCEPT !.task[2] = "send"]
            /\ UNCHANGED <<reply, toClient>>
       ELSE LET w == UDPConn_WriteTo(assoc.outcome, FALSE, reply[1].data, reply[1].src) IN
            /\ reply' = <<>>
            /\ IF w.err # NilErr
               THEN /\ assoc' = [assoc EXCEPT !.task[2] = "send"]
                    /\ UNCHANGED toClient
               ELSE /\ toClient' = Append(toClient, w.bytes)
                    /\ UNCHANGED assoc
    /\ UNCHANGED <<dgram, firstSrc, sent, rf>>
    /\ UNCHANGED <<srvVars, ctlVars, relVars, cliVars, wireVars>>

\* UDPConn.onTCPClose: the read on the control connection returns, then
\* UDPConn.Close.
UDPConn_onTCPClose ==
    /\ assoc.waiter = "read"
    /\ assoc' = [assoc EXCEPT !.waiter = "done",
                              !.client = UDPConn_Close(assoc.client, assoc.outcome).control,
                              !.outcome = UDPConn_Close(assoc.client, assoc.outcome).data]
    /\ UNCHANGED <<dgram, firstSrc, sent, reply, toClient, rf>>
    /\ UNCHANGED <<srvVars, ctlVars, relVars, cliVars, wireVars>>

\* udpConn.Transfer returns (srv.ctx is done, or a relay goroutine
\* delivered on result), then conn.Close().
udpConn_Transfer ==
    /\ assoc.pc = "transfer"
    /\ \E i \in {0, 1, 2} :
         /\ i # 0 => assoc.task[i] = "send"
         /\ assoc' = [assoc EXCEPT
                !.pc = "returned",
                !.task = IF i = 0 THEN @ ELSE [@ EXCEPT ![i] = "done"],
                !.client = udpConn_Close(assoc.client, assoc.income, assoc.outcome).client,
                !.income = udpConn_Close(assoc.client, assoc.income, assoc.outcome).income,
                !.outcome = udpConn_Close(assoc.client, assoc.income, assoc.outcome).outcome]
    /\ UNCHANGED <<dgram, firstSrc, sent, reply, toClient, rf>>
    /\ UNCHANGED <<srvVars, ctlVars, relVars, cliVars, wireVars>>

\* UDPConn.ReadFrom(p) of a client on the datagram b the proxy sent:
\* ReadHeader into the buffer of the UDPConn, and the length of DATA and DST
\* are returned; rf keeps the datagram, p as it is after the call, and the
\* results.
UDPConn_ReadFrom ==
    /\ \E b \in ClientDatagrams, p \in Buffers :
         LET h == UDPConn_ReadHeader("open", <<[src |-> "proxy", bytes |-> b]>>) IN
         rf' = IF h.err # NilErr
               THEN <<[bytes |-> b, p |-> p, n |-> 0, addr |-> "nil", err |-> h.err]>>
               ELSE <<[bytes |-> b, p |-> p, n |-> Len(h.val.Data), addr |-> h.val.Dst,
                       err |-> NilErr]>>
    /\ UNCHANGED <<assoc, dgram, firstSrc, sent, reply, toClient>>
    /\ UNCHANGED <<srvVars, ctlVars, relVars, cliVars, wireVars>>

UDPNext ==
    \/ ClientDatagram
    \/ UpstreamDatagram
    \/ udpConn_transferIncome
    \/ udpConn_transferOutcome
    \/ UDPConn_onTCPClose
    \/ udpConn_Transfer
    \/ UDPConn_ReadFrom

UDPSpec == UDPInit /\ [][UDPNext]_vars

\* ------------------------------------------------------------------ claims
\* A socket is closed once the program closed it; when the process is gone
\* the system has closed every descriptor it held.
Closed(sock) == sock = "closed" \/ panicked

HasReply(log, type, codes) ==
    \E i \in 1..Len(log) : log[i].type = type /\ log[i].code \in codes

\* C1: a session with PassAuth enters the command phase only with the
\* configured username and password; on a mismatch the server writes a
\* PassReply with STATUS # 0 and the session ends without reading a request.
C1_PassAuthChecksCredentials ==
    [][\A s \in Sessions :
          (pc[s] = "authRead" /\ pc'[s] # "authRead" /\ inbox[s] # <<>>
             /\ client[s].raw = "open" /\ peer[s] = "open" /\ ~srvDone
             /\ inbox[s][1].ver = subnegotiationVersion /\ ~inbox[s][1].eof)
          => IF inbox[s][1].uname = Auth.user /\ inbox[s][1].passwd = Auth.pass
             THEN pc'[s] = "reqRead"
             ELSE /\ pc'[s] = "returned"
                  /\ HasReply(out'[s], "pass", 1..255)]_vars

\* The step of Server.handle that read request m with nothing in its way:
\* the deadline has not passed and the client is still there.
HandleReads(s) ==
    /\ pc[s] = "reqRead"
    /\ pc'[s] # "reqRead"
    /\ inbox[s] # <<>>
    /\ client[s].raw = "open"
    /\ peer[s] = "open"
    /\ ~hDone(s)
    /\ inbox[s][1].ver = Version
    /\ ~inbox[s][1].eof

HandlerOf(cmd) ==
    CASE cmd = CmdConnect -> "CONNECT" [] cmd = CmdBind -> "BIND" [] cmd = CmdUDP -> "UDP"
      [] OTHER -> "none"

ValidAtyp(a) == a \in {AddrIPV4, AddrDomain, AddrIPv6}

\* C2: a request with CMD in {1, 2, 3} is dispatched to its handler; for any
\* other CMD the server writes a reply with REP = 7, closes the client
\* socket and starts no handler or relay.
C2_CmdValidity ==
    [][\A s \in Sessions :
          HandleReads(s)
          => IF inbox[s][1].cmd \in {CmdConnect, CmdBind, CmdUDP}
             THEN ValidAtyp(inbox[s][1].atyp) => handler'[s] = HandlerOf(inbox[s][1].cmd)
             ELSE /\ HasReply(out'[s], "rep", {RepCmdNotSupported})
                  /\ client'[s].raw = "closed"
                  /\ handler'[s] = "none"
                  /\ task'[s] = <<"none", "none">>]_vars

\* C3: with a valid VER and CMD, an ATYP of 1, 3 or 4 is accepted; for any
\* other ATYP the decoder's error carries reply code 8 and Server.handle
\* writes a reply with REP = 8.
C3_AtypValidity ==
    [][\A s \in Sessions :
          (HandleReads(s) /\ inbox[s][1].cmd \in {CmdConnect, CmdBind, CmdUDP})
          => IF ValidAtyp(inbox[s][1].atyp)
             THEN handler'[s] = HandlerOf(inbox[s][1].cmd)
             ELSE /\ Request_Read(inbox[s][1]).err = Err("socks", RepAddrNotSupported)
                  /\ HasReply(out'[s], "rep", {RepAddrNotSupported})]_vars

\* C4: when serve has returned without entering Transfer, Conn.Close was
\* called on the client connection and its socket is closed.
C4_FailedSessionClosesClient ==
    \A s \in Sessions :
        (pc[s] = "returned" /\ task[s] = <<"none", "none">>)
        => (~client[s].alive /\ client[s].raw = "closed")

\* C5: no session goroutine panics, whatever the client sends, and Serve
\* returns only on a listener error.
C5_SessionsNeverPanic ==
    /\ ~panicked
    /\ \A s \in Sessions : pc[s] # "panicked"
    /\ servePc = "returned" => listener # "open"

Active(s) == pc[s] \notin {"free", "returned"}

\* C6: once Server.Close was called, every active session, whatever it is
\* blocked in, eventually terminates.
C6_CloseCancelsEverySession ==
    \A s \in Sessions : (srvDone /\ Active(s)) ~> (panicked \/ ~Active(s))

Handshake == {"negRead", "authRead", "reqRead", "dial", "accept"}

\* C7: with a non-zero Server.Timeout no session stays in its handshake for
\* ever: a step that stalls ends when the deadline passes.
C7_TimeoutBoundsHandshake ==
    \A s \in Sessions :
        (timeoutEnabled /\ pc[s] \in Handshake) ~> (panicked \/ pc[s] \notin Handshake)

\* C8: whenever ReadMessage or WriteMessage returned ctx.Err() on a Conn
\* with CloseOnContextDone, the raw socket is closed and Alive() is false,
\* and the session makes no further message call.
C8_CancelClosesConn ==
    \A s \in Sessions :
        (ret[s] = CtxErr /\ client[s].CloseOnContextDone)
        => (client[s].raw = "closed" /\ ~client[s].alive /\ pc[s] = "returned")

C8_Witness ==
    \E s \in Sessions :
        /\ ret[s] = CtxErr
        /\ client[s].CloseOnContextDone
        /\ client[s].raw = "closed"
        /\ pc[s] = "returned"
        /\ out[s] # <<>>

RelayingTCP(s) == pc[s] = "transfer" /\ handler[s] \in {"CONNECT", "BIND"}

\* C9: in a CONNECT or BIND relay, once either endpoint has closed its
\* socket or a copy has returned, eventually both the client socket and the
\* upstream socket are closed.
C9_RelayEOFSymmetry ==
    \A s \in Sessions :
        (RelayingTCP(s) /\ (peer[s] = "closed" \/ upPeer[s] = "closed"
                               \/ \E i \in {1, 2} : task[s][i] # "copy"))
        ~> (Closed(client[s].raw) /\ Closed(server[s]))

C9_Witness ==
    \E s \in Sessions :
        /\ handler[s] \in {"CONNECT", "BIND"}
        /\ pc[s] = "returned"
        /\ upPeer[s] = "closed"
        /\ task[s][2] = "done"
        /\ client[s].raw = "closed"
        /\ server[s] = "closed"

\* C10: for an established UDP association, once the client has closed the
\* control connection, eventually both UDP sockets are closed and neither
\* relay goroutine is in its loop.
C10_UDPLifetimeCoupling ==
    \A s \in Sessions :
        (handler[s] = "UDP" /\ waiter[s] # "none" /\ peer[s] = "closed")
        ~> (/\ Closed(income[s])
            /\ Closed(outcome[s])
            /\ \A i \in {1, 2} : panicked \/ task[s][i] # "loop")

C10_Witness ==
    \E s \in Sessions :
        /\ handler[s] = "UDP"
        /\ peer[s] = "closed"
        /\ waiter[s] = "done"
        /\ income[s] = "closed"
        /\ outcome[s] = "closed"
        /\ \A i \in {1, 2} : task[s][i] # "loop"

ServerReadsOtherVersion(s) ==
    /\ pc[s] \in {"negRead", "authRead", "reqRead"}
    /\ pc'[s] # pc[s]
    /\ inbox[s] # <<>>
    /\ inbox[s][1].ver # (IF pc[s] = "authRead" THEN subnegotiationVersion ELSE Version)

ClientReadsOtherVersion ==
    /\ cpc \in {"negRead", "passRead", "repRead", "second"}
    /\ cpc' # cpc
    /\ cin # <<>>
    /\ cin[1].ver # (IF cpc = "passRead" THEN subnegotiationVersion ELSE Version)

\* C12: a message with VER # 5 (SUBVER # 1 for the password messages) makes
\* its decoder return a protocol error, and the side that read it does not
\* advance: the server writes nothing more and starts no handler or relay,
\* the client writes no further request and its call returns an error.
C12_VersionRejection ==
    [][/\ stage' = "readTampered" => back'.err = ProtoErr
       /\ \A s \in Sessions :
             ServerReadsOtherVersion(s)
             => /\ pc'[s] = "returned"
                /\ ret'[s] \in {ProtoErr, CtxErr}
                /\ out'[s] = out[s]
                /\ handler'[s] = "none"
                /\ task'[s] = <<"none", "none">>
       /\ ClientReadsOtherVersion
             => /\ cpc' = "returned"
                /\ cret'.err \in {ProtoErr, CtxErr}
                /\ csent' = csent
                /\ crecv' = crecv
                /\ sink' = sink]_vars

C12_Witness ==
    /\ stage = "readTampered"
    /\ message.type = "Request"
    /\ wire[1] = 4
    /\ back.err = ProtoErr

\* The step of Negotiator.Reply that read a well-formed negotiation request
\* with nothing in its way.
NegotiatorReads(s) ==
    /\ pc[s] = "negRead"
    /\ pc'[s] # "negRead"
    /\ inbox[s] # <<>>
    /\ client[s].raw = "open"
    /\ peer[s] = "open"
    /\ ~srvDone
    /\ inbox[s][1].ver = Version
    /\ ~inbox[s][1].eof

\* C13: for a negotiation request, negotiator.Reply writes exactly one
\* negotiation reply: the configured method M when the client's list has M,
\* else 0xFF; in the 0xFF case the session ends with an error and the
\* client socket is closed.
C13_MethodSelection ==
    [][\A s \in Sessions :
          NegotiatorReads(s)
          => IF \E i \in 1..Len(inbox[s][1].methods) : inbox[s][1].methods[i] = Auth.method
             THEN /\ out'[s] = out[s] \o <<[type |-> "neg", code |-> Auth.method, bnd |-> "-"]>>
                  /\ pc'[s] # "returned"
             ELSE /\ out'[s] = out[s] \o <<[type |-> "neg", code |-> MethodNoAcceptable, bnd |-> "-"]>>
                  /\ pc'[s] = "returned"
                  /\ client'[s].raw = "closed"]_vars

\* C14: when the dial of a CONNECT request fails and the client is still
\* connected, the server writes exactly one reply, with REP 3 or 4 and
\* BND 0.0.0.0:0, closes the client socket and starts no relay.
C14_ConnectDialFailure ==
    [][\A s \in Sessions :
          (pc[s] = "dial" /\ pc'[s] # "dial" /\ server'[s] = "none" /\ peer[s] = "open")
          => /\ \E code \in {3, RepHostUnreachable} :
                   out'[s] = out[s] \o <<[type |-> "rep", code |-> code, bnd |-> "0.0.0.0:0"]>>
             /\ client'[s].raw = "closed"
             /\ pc'[s] = "returned"
             /\ task'[s] = <<"none", "none">>]_vars

\* The step of Client.readReply that decoded the reply the proxy sent, with
\* nothing in its way.
ClientReadsReply ==
    /\ cpc \in {"repRead", "second"}
    /\ cpc' # cpc
    /\ cin # <<>>
    /\ proxy.raw = "open"
    /\ ~cDone
    /\ cin[1].ver = Version
    /\ cin[1].rep < 9
    /\ cin[1].atyp \in {AddrIPV4, AddrDomain, AddrIPv6}
    /\ ~cin[1].eof

\* C15: a reply with REP # 0 makes the call return an error of type *Error
\* whose Code is the REP and whose cause carries the request, and not a
\* result of success; a reply with REP = 0 gives no error.
C15_ClientReplyHandling ==
    [][ClientReadsReply
       => /\ crecv' = Append(crecv, cin[1])
          /\ IF cin[1].rep # RepSucceeded
             THEN /\ cpc' = "returned"
                  /\ cret'.err = [kind |-> "socks", code |-> cin[1].rep]
                  /\ cret'.cause = [Request |-> NewRequest(call), Code |-> cin[1].rep]
                  /\ cpc = "repRead" => ~cret'.stream
             ELSE (cpc' = "returned" /\ call # "UDP")
                  => (cret'.err = NilErr /\ cret'.stream)]_vars

C15_Witness ==
    /\ cpc = "returned"
    /\ cret.err = [kind |-> "socks", code |-> RepHostUnreachable]
    /\ Len(crecv) = 1
    /\ crecv[1].rep = RepHostUnreachable
    /\ ~cret.stream

PassReplies(log) == {i \in 1..Len(log) : log[i].type = "pass"}

\* C16: in a session PassAuth.Reply writes at most one PassReply, exactly one
\* once the session is past the sub-negotiation, and a failure reply is
\* never followed by a success reply.
C16_OnePassReply ==
    \A s \in Sessions :
        /\ Cardinality(PassReplies(out[s])) <= 1
        /\ \A i, j \in PassReplies(out[s]) :
              ~(i < j /\ out[s][i].code # statusOK /\ out[s][j].code = statusOK)
        /\ (Auth.method = MethodPassword /\ pc[s] \in {"reqRead", "dial", "accept", "transfer"})
           => Cardinality(PassReplies(out[s])) = 1

C16_Witness ==
    \E s \in Sessions :
        /\ Auth.method = MethodPassword
        /\ pc[s] = "reqRead"
        /\ out[s] = <<[type |-> "neg", code |-> MethodPassword, bnd |-> "-"],
                      [type |-> "pass", code |-> statusOK, bnd |-> "-"]>>

\* C17: when the proxy selects a method that is not 0xFF and that the client
\* does not support (neither 0x00 nor the method of Client.Auth), the call
\* fails before any command request is written.
C17_UnsupportedMethodFails ==
    (cpc \notin {"none", "start", "negRead"}
        /\ cmethod \notin {MethodNotRequired, cAuth.method})
    => /\ \A i \in 1..Len(csent) : csent[i].type # "Request"
       /\ cpc \in {"passRead", "returned"}
       /\ cpc = "returned" => cret.err # NilErr

Rank(type) == CASE type = "neg" -> 1 [] type = "pass" -> 2 [] type = "rep" -> 3

\* C18: on the control socket of a session the server writes the negotiation
\* reply, then the password reply when the method is 0x02, then command
\* replies; it reads the command request only after negotiation and
\* authentication succeeded and writes a command reply only after the
\* command request was read.
C18_HandshakeOrdering ==
    \A s \in Sessions :
        /\ \A i, j \in 1..Len(out[s]) :
              i < j => /\ Rank(out[s][i].type) <= Rank(out[s][j].type)
                       /\ out[s][j].type # "neg"
                       /\ out[s][j].type # "pass" \/ out[s][i].type = "neg"
        /\ (pc[s] = "authRead")
           => out[s] = <<[type |-> "neg", code |-> MethodPassword, bnd |-> "-"]>>
        /\ (pc[s] \in {"reqRead", "dial", "accept", "transfer"} \/ handler[s] # "none")
           => /\ Len(out[s]) >= 1
              /\ out[s][1] = [type |-> "neg", code |-> Auth.method, bnd |-> "-"]
              /\ Auth.method = MethodPassword
                 => /\ Len(out[s]) >= 2
                    /\ out[s][2] = [type |-> "pass", code |-> statusOK, bnd |-> "-"]
        /\ (pc[s] = "reqRead") => ~HasReply(out[s], "rep", 0..255)
        /\ HasReply(out[s], "rep", 0..255) => handler[s] # "none"

C18_Witness ==
    \E s \in Sessions :
        /\ Auth.method = MethodPassword
        /\ handler[s] = "BIND"
        /\ pc[s] = "transfer"
        /\ Len(out[s]) = 4
        /\ out[s][3].type = "rep"
        /\ out[s][4].type = "rep"

\* C19: a BIND session that waits for its peer when the deadline of the
\* session passes ends its wait: the session terminates with the client
\* socket and the listener closed.
C19_BindWaitsUnderDeadline ==
    \A s \in Sessions :
        (pc[s] = "accept" /\ hDone(s))
        ~> (panicked \/ (pc[s] = "returned" /\ Closed(client[s].raw) /\ Closed(bindL[s])))

\* C20: Client.Bind delivers the BND address of the first successful reply
\* on the sink once, before it reads the second reply, and returns with
\* success only after the second reply was read; when the first reply is a
\* failure nothing is delivered and an error is returned.
C20_BindTwoReplies ==
    /\ Len(sink) <= 1
    /\ sink # <<>>
       => /\ call = "Bind"
          /\ Len(crecv) >= 1
          /\ crecv[1].rep = RepSucceeded
          /\ sink[1] = crecv[1].bnd
    /\ Len(crecv) >= 2 => sink # <<>>
    /\ (call = "Bind" /\ cpc = "returned" /\ cret.err = NilErr)
       => (cret.stream /\ Len(crecv) = 2 /\ sink # <<>>)
    /\ (call = "Bind" /\ cpc = "returned" /\ cret.stream) => sink # <<>>
    /\ (call = "Bind" /\ Len(crecv) >= 1 /\ crecv[1].rep # RepSucceeded)
       => (sink = <<>> /\ cpc = "returned" /\ cret.err # NilErr /\ ~cret.stream)

C20_Witness ==
    /\ call = "Bind"
    /\ cpc = "returned"
    /\ cret.err = NilErr
    /\ cret.stream
    /\ Len(crecv) = 2
    /\ crecv[1].bnd # crecv[2].bnd
    /\ sink = <<crecv[1].bnd>>

\* C22: in a UDP association whose control connection is open at both ends
\* and whose server is not closed, a relay goroutine that left its loop on
\* an error of a UDP socket does not make the control TCP socket close.
\* (The steps of the watcher of the control connection are not concerned.)
C22_UDPCloseKeepsTCP ==
    [][\A s \in Sessions :
          (/\ handler[s] = "UDP"
           /\ pc[s] = "transfer"
           /\ peer[s] = "open"
           /\ ~srvDone
           /\ client[s].raw = "open"
           /\ waiter'[s] = waiter[s]
           /\ \E i \in {1, 2} : task[s][i] = "send")
          => client'[s].raw = "open"]_vars

\* C26: after a relay has ended and conn.Close has closed the sockets, both
\* relay goroutines eventually terminate: none stays blocked sending on the
\* result channel.
C26_RelayTasksTerminate ==
    \A s \in Sessions :
        (pc[s] = "returned" /\ handler[s] \in {"CONNECT", "BIND", "UDP"})
        ~> (panicked \/ \A i \in {1, 2} : task[s][i] = "done")

\* C27: whenever Server.serve has returned, every socket and listener of
\* the session is closed: the control socket, the upstream connection, the
\* listener of BIND and both UDP sockets.
C27_NoSocketLeak ==
    \A s \in Sessions :
        pc[s] = "returned"
        => /\ Closed(client[s].raw)
           /\ server[s] # "none" => Closed(server[s])
           /\ bindL[s] # "none" => Closed(bindL[s])
           /\ income[s] # "none" => Closed(income[s])
           /\ outcome[s] # "none" => Closed(outcome[s])

\* C21: the alive bit of a Conn goes from true to false once: a Conn that
\* is not alive had Close called on its raw socket exactly once, and no
\* later step of its session changes it (alive never returns to true, the
\* raw socket is not closed again).
C21_AliveFallsOnce ==
    [][\A s \in Sessions :
          /\ ~client'[s].alive => client'[s].closes = 1
          /\ (~client[s].alive /\ ~(Idle(s) /\ pc'[s] = "negRead"))
             => client'[s] = client[s]]_vars

\* C28: the goroutine that processMessage started for a message call
\* eventually terminates, also when processMessage returned on ctx.Done()
\* before the goroutine delivered its result.
C28_HelperTerminates ==
    \A s \in Sessions :
        (helper[s] \in {"handler", "send"}) ~> (panicked \/ helper[s] = "done")

\* C29: a message of the control connection whose bytes arrive in two
\* reads decodes to the same message with the same error as when they
\* arrive in one read.
C29_SegmentationIndependence ==
    (stage = "read" /\ message.type # "UDPHeader")
    => back = Message_Read(message.type, Segments(wire, 0))

\* The address of a message that has one, and the bytes a correct encoding
\* of it has: ATYP, the 4 or 16 address bytes or LEN and the name, the port.
HasAddr(m) == m.type \in {"Request", "Reply", "UDPHeader"}

AddrOf(m) == IF m.type = "Reply" THEN m.Bnd ELSE m.Dst

IsLiteral(a) ==
    \/ a.Atyp = AddrIPV4 /\ a.Host = "1.2.3.4"
    \/ a.Atyp = AddrIPv6 /\ a.Host \in {"::1", "::ffff:1.2.3.4"}

Encodable(a) ==
    \/ IsLiteral(a)
    \/ a.Atyp = AddrDomain /\ Len(StringBytes(a.Host)) <= 255

AddrBytes(a) ==
    <<a.Atyp>>
    \o (CASE a.Atyp = AddrIPV4 -> To4(ParseIP(a.Host))
          [] a.Atyp = AddrIPv6 -> ParseIP(a.Host)
          [] OTHER -> <<Len(StringBytes(a.Host))>> \o StringBytes(a.Host))
    \o PutUint16(a.Port)

\* C25: writing a message whose address does not fit its ATYP (an address
\* of the other family or no address under an IP ATYP, a name longer than
\* 255 bytes) fails with a protocol error and emits no byte; every other
\* address is emitted as ATYP, 4 or 16 address bytes or LEN and name, port.
C25_AddrWriteRejects ==
    (stage \in {"written", "failed"} /\ HasAddr(message))
    => IF Encodable(AddrOf(message))
       THEN /\ stage = "written"
            /\ SubSeq(wire, 4, 3 + Len(AddrBytes(AddrOf(message)))) = AddrBytes(AddrOf(message))
       ELSE /\ stage = "failed"
            /\ wire = <<>>

\* The turn of transferIncome that reads the waiting datagram, and the
\* header it decodes to.
RelayReads == dgram # <<>> /\ dgram' = <<>>

Header(d) == UDPHeader_ReadWire(<<d.bytes>>)

\* C23: the relay forwards the DATA of a datagram received from the client
\* to DST only if FRAG is 0; a datagram with FRAG # 0 produces no upstream
\* datagram.
C23_FragDiscarded ==
    [][(RelayReads /\ sent' # sent)
       => (Header(dgram[1]).err = NilErr /\ Header(dgram[1]).val.Frag = 0)]_vars

\* C24: the relay takes the source of the first datagram it reads on the
\* client-facing socket as the client endpoint: no datagram of another
\* source is forwarded upstream, and a reply from upstream is written to
\* that endpoint only.
C24_ClientEndpointPinned ==
    [][/\ (RelayReads /\ sent' # sent /\ firstSrc # "none") => dgram[1].src = firstSrc
       /\ toClient' # toClient => firstSrc # "none"]_vars

\* C30: when UDPConn.ReadFrom(p) of a client returns (n, addr, nil) for a
\* datagram whose header decodes, n <= len(p), the first n bytes of p are
\* the DATA of the header and addr is its DST.
C30_ReadFromDelivers ==
    (rf # <<>> /\ rf[1].err = NilErr)
    => /\ rf[1].n <= Len(rf[1].p)
       /\ SubSeq(rf[1].p, 1, rf[1].n) = Header(rf[1]).val.Data
       /\ rf[1].addr = Header(rf[1]).val.Dst

\* C31: while the control connection is alive and the association is open,
\* a datagram from the client that does not decode is dropped and the relay
\* goes on: the goroutine that read it stays in its loop, so that later
\* datagrams are still relayed.
C31_DatagramIndependent ==
    [][(/\ RelayReads
        /\ assoc.pc = "transfer"
        /\ assoc.client.raw = "open"
        /\ assoc.income = "open"
        /\ assoc.outcome = "open"
        /\ Header(dgram[1]).err # NilErr)
       => assoc'.task[1] = "loop"]_vars

====
